---- MODULE Spec2Model ----
(***************************************************************************)
(* Audio fingerprinting pipeline of audio-algorithm-explorer:              *)
(* signal -> frames -> spectra -> spectrogram matrix -> peaks -> pairs.    *)
(*                                                                         *)
(* Numbers.  JavaScript numbers are modelled as integers in fixed point.   *)
(* A double holds every integer of the model; a Float32Array cell holds    *)
(* only the multiples of F32Step (fround rounds to the nearest one).       *)
(* Decibel values count units of 1/DbUnit dB, normalized spectrogram cells *)
(* count units of 1/CellScale.  NaN and Infinity are reserved integers.     *)
(*                                                                         *)
(* Indices.  JavaScript arrays are 0-based, TLA+ sequences 1-based: the    *)
(* model keeps the program's 0-based indices (t, f, currentAnchorIndex)    *)
(* and adds 1 when it subscripts a sequence.                               *)
(***************************************************************************)
EXTENDS Integers, Sequences, FiniteSets, TLC

VARIABLES
    fftSize,            \* this.fftSize of the visualizers
    peakNeighborhood,   \* this.peakNeighborhood
    minDistance,        \* this.minDistance
    targetZone,         \* [minDt, maxDt, maxDf]: minTargetDt/maxTargetDt/maxFreqDelta
                        \* (targetZoneStart/targetZoneEnd/targetZoneHeight)
    audioData,          \* the signal last handed to setAudioData, or Null
    spectrogramData,    \* per visualizer: this.spectrogramData
    peaks,              \* per visualizer: this.peaks
    pairs,              \* per visualizer: this.pairs
    currentAnchorIndex, \* FingerprintVisualizer.currentAnchorIndex
    lastSampleRead,     \* highest index of audioData the last processSpectrogramData read
    raised,             \* exception thrown by the last handler, or "none"
    lastOp,             \* name of the last operation that ran
    fft,                \* the FFT instance: class, size and tables
    fftInput,           \* the buffer handed to FFT.forward
    fftOutput,          \* the array the last FFT.forward returned
    fftCall,            \* how the last FFT.forward ended
    hoveredPeakIndex,   \* FingerprintVisualizer.hoveredPeakIndex
    pendingFrames,      \* requestAnimationFrame callbacks of FingerprintVisualizer.draw not yet run
    plugin,             \* ConstellationPlugin: peaks, frequencies, isReady, canvas, resizeObserver
    wrapper,            \* the spectrogram wrapper: overlay canvases and observers attached
    player,             \* ShazamVisualizer (canvas version): isPlaying, audioSource, currentTime, startTime
    context,            \* its AudioContext: currentTime, sources created and playing, ended events pending
    loader,             \* AudioLoader: source, startTime, offset
    loaderContext       \* its AudioContext: currentTime, sources created and playing

configVars == <<fftSize, peakNeighborhood, minDistance, targetZone>>

fftVars == <<fft, fftInput, fftOutput, fftCall>>

visualizerVars == <<audioData, spectrogramData, peaks, pairs, currentAnchorIndex, lastSampleRead>>

viewVars == <<hoveredPeakIndex, pendingFrames>>

pluginVars == <<plugin, wrapper>>

audioVars == <<player, context, loader, loaderContext>>

(* The variables of the interactive parts: the mouse and animation state of
   the fingerprint view, the wavesurfer plugin, and the two players. *)
uiVars == <<viewVars, pluginVars, audioVars>>

pipelineVars == <<audioData, spectrogramData, peaks, pairs, currentAnchorIndex,
                  lastSampleRead, raised>>

vars == <<fftSize, peakNeighborhood, minDistance, targetZone, audioData,
          spectrogramData, peaks, pairs, currentAnchorIndex, lastSampleRead,
          raised, lastOp, fft, fftInput, fftOutput, fftCall,
          hoveredPeakIndex, pendingFrames, plugin, wrapper, player, context,
          loader, loaderContext>>

(* this.spectrogramData: null, or the list of rows. *)
Null == [isNull |-> TRUE, rows |-> <<>>]

Rows(list) == [isNull |-> FALSE, rows |-> list]

(* this.audioData = null *)
NoAudio == [len |-> -1, db |-> <<>>]


Abs(x) == IF x < 0 THEN -x ELSE x

Max(a, b) == IF a >= b THEN a ELSE b

Min(a, b) == IF a <= b THEN a ELSE b

-----------------------------------------------------------------------------
(* Target zone of the pairing stage. *)

minTargetDt == 5
maxTargetDt == 100
maxFreqDelta == 50

ConfiguredZone == [minDt |-> minTargetDt, maxDt |-> maxTargetDt, maxDf |-> maxFreqDelta]

Peak(t, f, v) == [t |-> t, f |-> f, intensity |-> v]

Pair(a, b) == [anchor |-> a, target |-> b]

(* [...this.peaks].sort((a, b) => a.t - b.t): stable insertion into a list
   sorted by time. *)
RECURSIVE InsertByTime(_, _)
InsertByTime(sorted, p) ==
    IF sorted = <<>> THEN <<p>>
    ELSE IF sorted[Len(sorted)].t <= p.t THEN Append(sorted, p)
    ELSE Append(InsertByTime(SubSeq(sorted, 1, Len(sorted) - 1), p), sorted[Len(sorted)])

RECURSIVE SortByTime(_)
SortByTime(list) ==
    IF list = <<>> THEN <<>>
    ELSE InsertByTime(SortByTime(SubSeq(list, 1, Len(list) - 1)), list[Len(list)])

(* Mutant of the inner loop: leaves the loop at the first target that is
   outside the zone instead of skipping it. *)
RECURSIVE TargetLoopBreakEarly(_, _, _, _)
TargetLoopBreakEarly(sorted, zone, i, j) ==
    IF j > Len(sorted) THEN <<>>
    ELSE LET anchor == sorted[i]
             target == sorted[j]
             dt == target.t - anchor.t
         IN  IF dt >= zone.minDt /\ dt <= zone.maxDt
                /\ Abs(target.f - anchor.f) <= zone.maxDf
             THEN <<Pair(anchor, target)>> \o TargetLoopBreakEarly(sorted, zone, i, j + 1)
             ELSE <<>>

(* Mutant of the inner loop: the frequency test is missing. *)
RECURSIVE TargetLoopNoFreq(_, _, _, _)
TargetLoopNoFreq(sorted, zone, i, j) ==
    IF j > Len(sorted) THEN <<>>
    ELSE LET anchor == sorted[i]
             target == sorted[j]
             dt == target.t - anchor.t
         IN  IF dt > zone.maxDt THEN <<>>
             ELSE IF dt >= zone.minDt
             THEN <<Pair(anchor, target)>> \o TargetLoopNoFreq(sorted, zone, i, j + 1)
             ELSE TargetLoopNoFreq(sorted, zone, i, j + 1)

(* The inner loop of createPairs: the pairs pushed for the anchor at
   position i of the sorted list from the target at position j on
   (positions 1-based), in the order of the pushes. *)
RECURSIVE TargetLoop(_, _, _, _)
TargetLoop(sorted, zone, i, j) ==
    IF j > Len(sorted) THEN <<>>
    ELSE LET anchor == sorted[i]
             target == sorted[j]
             dt == target.t - anchor.t
         IN  IF dt > zone.maxDt THEN <<>>
             ELSE IF dt >= zone.minDt /\ Abs(target.f - anchor.f) <= zone.maxDf
             THEN <<Pair(anchor, target)>> \o TargetLoop(sorted, zone, i, j + 1)
             ELSE TargetLoop(sorted, zone, i, j + 1)

(* The outer loop of createPairs over the anchors i, i + 1, ... *)
RECURSIVE PairLoop(_, _, _)
PairLoop(sorted, zone, i) ==
    IF i > Len(sorted) THEN <<>>
    ELSE TargetLoop(sorted, zone, i, i + 1) \o PairLoop(sorted, zone, i + 1)

(* ConstellationVisualizer.createPairs: the value of this.pairs it leaves. *)
CreatePairs(peakList, zone) ==
    IF Len(peakList) = 0 THEN <<>>
    ELSE PairLoop(SortByTime(peakList), zone, 1)

(* Mutant of the test: the lower end of the time window is missing. *)
InTargetZoneNoMin(anchor, target, zone) ==
    LET dt == target.t - anchor.t
    IN  /\ dt <= zone.maxDt
        /\ Abs(target.f - anchor.f) <= zone.maxDf

(* Mutant: createPairs sorts this.peaks itself. *)
PeaksSortedInPlace(peakList) == SortByTime(peakList)

(* this.peaks after createPairs: the sort works on the copy [...this.peaks]. *)
PeaksAfterCreatePairs(peakList) == peakList

(* The test of createPairsForCurrentAnchor on one target. *)
InTargetZone(anchor, target, zone) ==
    LET dt == target.t - anchor.t
    IN  /\ dt >= zone.minDt /\ dt <= zone.maxDt
        /\ Abs(target.f - anchor.f) <= zone.maxDf

(* The loop of createPairsForCurrentAnchor over the targets k, k + 1, ...:
   the pairs pushed, in the order of the pushes. *)
RECURSIVE AnchorLoop(_, _, _, _)
AnchorLoop(peakList, anchor, zone, k) ==
    IF k > Len(peakList) THEN <<>>
    ELSE IF InTargetZone(anchor, peakList[k], zone)
         THEN <<Pair(anchor, peakList[k])>> \o AnchorLoop(peakList, anchor, zone, k + 1)
         ELSE AnchorLoop(peakList, anchor, zone, k + 1)

(* FingerprintVisualizer.createPairsForCurrentAnchor: the pairs it leaves and
   whether it throws (anchor undefined while there is a target to test). *)
CreatePairsForCurrentAnchor(peakList, index, zone) ==
    IF index < 0 THEN [pairs |-> <<>>, raised |-> "none"]
    ELSE IF Len(peakList) = 0 THEN [pairs |-> <<>>, raised |-> "none"]
    ELSE IF index >= Len(peakList) THEN [pairs |-> <<>>, raised |-> "TypeError"]
    ELSE [pairs |-> AnchorLoop(peakList, peakList[index + 1], zone, 1),
          raised |-> "none"]

-----------------------------------------------------------------------------
(* JavaScript numbers. *)

(* A Float32Array cell holds the multiples of F32Step; a double holds every
   integer. *)
F32Step == 4

(* Units per decibel: whole decibels are exact in single precision. *)
DbUnit == F32Step

(* Units of a normalized spectrogram cell: 1.0 is CellScale. *)
CellScale == 1000

(* Infinity and NaN are integers no computation of the model reaches. *)
Infinity == CellScale * CellScale

NaN == 3 * Infinity

IsNaN(x) == x = NaN

(* Store into a Float32Array (Math.fround): round to the nearest
   representable value, ties to the even one. *)
Fround(x) ==
    IF IsNaN(x) THEN NaN
    ELSE LET q == x \div F32Step
             r == x % F32Step
         IN  IF 2 * r < F32Step THEN q * F32Step
             ELSE IF 2 * r > F32Step THEN (q + 1) * F32Step
             ELSE IF q % 2 = 0 THEN q * F32Step ELSE (q + 1) * F32Step

(* a >= b and a < b of JavaScript: false when an operand is NaN. *)
JsGe(a, b) == ~IsNaN(a) /\ ~IsNaN(b) /\ a >= b

JsLt(a, b) == ~IsNaN(a) /\ ~IsNaN(b) /\ a < b

(* Math.max / Math.min: NaN when an operand is NaN. *)
JsMax(a, b) == IF IsNaN(a) \/ IsNaN(b) THEN NaN ELSE Max(a, b)

JsMin(a, b) == IF IsNaN(a) \/ IsNaN(b) THEN NaN ELSE Min(a, b)

(* Quotient of two integers rounded to the nearest integer. *)
RoundDiv(a, b) ==
    IF a >= 0 THEN (2 * a + b) \div (2 * b) ELSE -((2 * (-a) + b) \div (2 * b))

(* (num / den) of JavaScript as a cell value in units of 1/CellScale:
   0 / 0 is NaN, x / 0 is +-Infinity. *)
JsQuotient(num, den) ==
    IF IsNaN(num) \/ IsNaN(den) THEN NaN
    ELSE IF den = 0
         THEN IF num = 0 THEN NaN ELSE IF num > 0 THEN Infinity ELSE -Infinity
    ELSE IF den > 0 THEN RoundDiv(num * CellScale, den)
    ELSE -RoundDiv(num * CellScale, -den)

RECURSIVE SqrtSearch(_, _, _)
SqrtSearch(x, lo, hi) ==
    IF lo >= hi THEN lo
    ELSE LET mid == (lo + hi + 1) \div 2
         IN  IF mid * mid <= x THEN SqrtSearch(x, mid, hi) ELSE SqrtSearch(x, lo, mid - 1)

(* Math.pow(v, 1.5) on a cell value: v * sqrt(v), NaN for a negative base. *)
Pow15(v) ==
    IF IsNaN(v) THEN NaN
    ELSE IF v < 0 THEN NaN
    ELSE (v * SqrtSearch(v * CellScale, 0, v + CellScale)) \div CellScale

-----------------------------------------------------------------------------
(* Spectrogram builder.

   A signal is [len, db]: the number of samples and, for every complete
   frame i (i * hopSize + fftSize <= len), the row db[i + 1] of decibel
   values 20 * log10(|spectrum[j]| + 1e-6) of its bins as doubles.  The
   transform of one frame is the subject of FFTSpec; the visualizers are
   handed the same rows, whatever their transform makes of the samples. *)

minDecibels == -90
maxDecibels == -20

(* 20 * log10(0 + 1e-6): the decibel value of a bin of magnitude 0. *)
silenceDecibels == -120

FrequencyBinCount(n) == n \div 2

HopSize(n) == n \div 4

(* Mutant: counts the frames that start inside the signal. *)
NumFramesCeil(len, n) == (len - n + HopSize(n) - 1) \div HopSize(n) + 1

(* const numFrames = Math.floor((this.audioData.length - this.fftSize) / hopSize) *)
NumFrames(len, n) == (len - n) \div HopSize(n)

(* Number of frames that lie inside a signal of len samples. *)
CompleteFrames(len, n) == IF len < n THEN 0 ELSE (len - n) \div HopSize(n) + 1

(* Decibel row of frame i (0-based); a frame that reaches past the end of
   the signal reads undefined samples, which makes every bin NaN. *)
FrameDecibels(sig, n, i) ==
    IF i * HopSize(n) + n <= sig.len THEN sig.db[i + 1]
    ELSE [j \in 1..FrequencyBinCount(n) |-> NaN]

(* Highest index of audioData a run over numFrames frames reads, -1 if none. *)
LastSampleRead(numFrames, n) ==
    IF numFrames <= 0 THEN -1 ELSE (numFrames - 1) * HopSize(n) + n - 1

(* The values of all cells of a list of rows. *)
CellValues(rows) == { rows[i][j] : i \in 1..Len(rows), j \in 1..(IF Len(rows) = 0 THEN 0 ELSE Len(rows[1])) }

(* globalMax = Math.max(globalMax, decibels) over every bin of every frame,
   from -Infinity. *)
GlobalMax(rows) ==
    LET values == CellValues(rows)
    IN  IF NaN \in values THEN NaN
        ELSE IF values = {} THEN -Infinity
        ELSE CHOOSE x \in values : \A y \in values : y <= x

(* globalMin = Math.min(globalMin, decibels), from Infinity. *)
GlobalMin(rows) ==
    LET values == CellValues(rows)
    IN  IF NaN \in values THEN NaN
        ELSE IF values = {} THEN Infinity
        ELSE CHOOSE x \in values : \A y \in values : y >= x

(* magnitudes[j] = decibels, magnitudes being a Float32Array. *)
StoreDecibels(decibels) == Fround(decibels)

(* normalizedMagnitudes[j] = (magnitudes[j] - globalMin) / range; the
   Float32Array it is stored in holds every cell value of the model (single
   precision resolves 1 / CellScale and far less around 0 and 1). *)
Normalize(magnitude, globalMin, range) ==
    IF IsNaN(magnitude) \/ IsNaN(globalMin) \/ IsNaN(range) THEN NaN
    ELSE JsQuotient(magnitude - globalMin, range)

(* ConstellationVisualizer.processSpectrogramData up to the spectrogram
   (FingerprintVisualizer.processSpectrogramData is the same code): the
   matrix it stores, the highest sample index it reads, and the tempData,
   globalMin and globalMax it normalizes with. *)
ProcessSpectrogramData(sig, n) ==
    LET numFrames == NumFrames(sig.len, n)
        decibels == [i \in 1..Max(numFrames, 0) |-> FrameDecibels(sig, n, i - 1)]
        globalMax == GlobalMax(decibels)
        globalMin == GlobalMin(decibels)
        tempData == [i \in 1..Len(decibels) |->
                        [j \in 1..FrequencyBinCount(n) |-> StoreDecibels(decibels[i][j])]]
        range == IF IsNaN(globalMax) \/ IsNaN(globalMin) THEN NaN ELSE globalMax - globalMin
    IN  [matrix |-> [i \in 1..Len(tempData) |->
                        [j \in 1..FrequencyBinCount(n) |-> Normalize(tempData[i][j], globalMin, range)]],
         lastRead |-> LastSampleRead(numFrames, n),
         tempData |-> tempData, globalMin |-> globalMin, globalMax |-> globalMax]

(* Math.max(this.minDecibels, Math.min(this.maxDecibels, decibels)) *)
Clamp(decibels) == JsMax(minDecibels * DbUnit, JsMin(maxDecibels * DbUnit, decibels))

(* SpectrogramVisualizer.processSpectrogramData: globalMin and globalMax are
   the configured floor and ceiling, the normalized value is raised to 1.5. *)
SpectrogramProcessSpectrogramData(sig, n) ==
    LET numFrames == NumFrames(sig.len, n)
        globalMax == maxDecibels * DbUnit
        globalMin == minDecibels * DbUnit
        tempData == [i \in 1..Max(numFrames, 0) |->
                        [j \in 1..FrequencyBinCount(n) |->
                            Fround(Clamp(FrameDecibels(sig, n, i - 1)[j]))]]
        range == globalMax - globalMin
    IN  [matrix |-> [i \in 1..Len(tempData) |->
                        [j \in 1..FrequencyBinCount(n) |->
                            Pow15(Normalize(tempData[i][j], globalMin, range))]],
         lastRead |-> LastSampleRead(numFrames, n),
         tempData |-> tempData, globalMin |-> globalMin, globalMax |-> globalMax]

-----------------------------------------------------------------------------
(* Peak extractor. *)

(* this.peakThreshold = 0.4 *)
PeakThreshold == (4 * CellScale) \div 10

(* const numBins = Math.floor(this.frequencyBinCount / 4) *)
NumBins(n) == FrequencyBinCount(n) \div 4

(* The local-maximum loops and the threshold test on the cell (t, f). *)
IsPeak(matrix, neighborhood, t, f) ==
    LET value == matrix[t + 1][f + 1]
    IN  /\ \A dt \in -neighborhood..neighborhood, df \in -neighborhood..neighborhood :
              (dt = 0 /\ df = 0) \/ ~JsGe(matrix[t + dt + 1][f + df + 1], value)
        /\ ~JsLt(value, PeakThreshold)

(* Mutant: the distance test is off by one. *)
TooCloseOffByOne(accepted, dist, t, f) ==
    \E k \in 1..Len(accepted) :
        Abs(t - accepted[k].t) < dist - 1 /\ Abs(f - accepted[k].f) < dist - 1

(* The minimum-distance loop over the peaks accepted so far. *)
TooClose(accepted, dist, t, f) ==
    \E k \in 1..Len(accepted) :
        Abs(t - accepted[k].t) < dist /\ Abs(f - accepted[k].f) < dist

(* t < numFrames - this.peakNeighborhood: the rows scanned end here. *)
FrameLimit(numFrames, neighborhood) == numFrames - neighborhood

(* Mutant: the scan runs over every bin of a row but the border. *)
BinLimitWholeRow(numBins, neighborhood) == 4 * numBins - neighborhood

(* f < numBins - this.peakNeighborhood: the bins scanned end here. *)
BinLimit(numBins, neighborhood) == numBins - neighborhood

(* The cells this.spectrogramData[t + dt][f + df] the loops of findPeaks
   may read, as (row, bin). *)
CellsRead(numFrames, neighborhood, numBins) ==
    { <<t + dt, f + df>> :
        t \in neighborhood..(FrameLimit(numFrames, neighborhood) - 1),
        f \in neighborhood..(BinLimit(numBins, neighborhood) - 1),
        dt \in -neighborhood..neighborhood,
        df \in -neighborhood..neighborhood }

(* Mutant of the loop over the bins: row t is scanned from the highest bin
   down. *)
RECURSIVE ScanRowDescending(_, _, _, _, _, _, _)
ScanRowDescending(matrix, neighborhood, dist, numBins, t, f, accepted) ==
    IF f >= BinLimit(numBins, neighborhood) THEN accepted
    ELSE LET g == BinLimit(numBins, neighborhood) - 1 - (f - neighborhood)
         IN  IF IsPeak(matrix, neighborhood, t, g) /\ ~TooClose(accepted, dist, t, g)
             THEN ScanRowDescending(matrix, neighborhood, dist, numBins, t, f + 1,
                                    Append(accepted, Peak(t, g, matrix[t + 1][g + 1])))
             ELSE ScanRowDescending(matrix, neighborhood, dist, numBins, t, f + 1, accepted)

(* The loop of findPeaks over the bins f, f + 1, ... of row t; accepted is
   this.peaks so far. *)
RECURSIVE ScanRow(_, _, _, _, _, _, _)
ScanRow(matrix, neighborhood, dist, numBins, t, f, accepted) ==
    IF f >= BinLimit(numBins, neighborhood) THEN accepted
    ELSE IF IsPeak(matrix, neighborhood, t, f) /\ ~TooClose(accepted, dist, t, f)
         THEN ScanRow(matrix, neighborhood, dist, numBins, t, f + 1,
                      Append(accepted, Peak(t, f, matrix[t + 1][f + 1])))
    ELSE ScanRow(matrix, neighborhood, dist, numBins, t, f + 1, accepted)

(* The loop of findPeaks over the rows t, t + 1, ... *)
RECURSIVE ScanPeaks(_, _, _, _, _, _)
ScanPeaks(matrix, neighborhood, dist, numBins, t, accepted) ==
    IF t >= FrameLimit(Len(matrix), neighborhood) THEN accepted
    ELSE ScanPeaks(matrix, neighborhood, dist, numBins, t + 1,
                   ScanRow(matrix, neighborhood, dist, numBins, t, neighborhood, accepted))

(* Mutant: this.peaks is not emptied first. *)
FindPeaksKeep(spectrogram, old, neighborhood, dist, numBins) ==
    IF spectrogram.isNull THEN old
    ELSE ScanPeaks(spectrogram.rows, neighborhood, dist, numBins, neighborhood, old)

(* ConstellationVisualizer.findPeaks: the value of this.peaks it leaves; old
   is this.peaks before the call. *)
FindPeaks(spectrogram, old, neighborhood, dist, numBins) ==
    IF spectrogram.isNull THEN <<>>
    ELSE ScanPeaks(spectrogram.rows, neighborhood, dist, numBins, neighborhood, <<>>)

(* Mutant: findPeaks clears the cell of every peak it accepts. *)
SpectrogramSuppressed(spectrogram, found) ==
    IF spectrogram.isNull THEN spectrogram
    ELSE [spectrogram EXCEPT !.rows =
             [i \in 1..Len(spectrogram.rows) |->
                 [j \in 1..Len(spectrogram.rows[i]) |->
                     IF \E k \in 1..Len(found) : found[k].t = i - 1 /\ found[k].f = j - 1
                     THEN 0 ELSE spectrogram.rows[i][j]]]]

(* this.spectrogramData after findPeaks has pushed the peaks found: the
   matrix is only read. *)
SpectrogramAfterFindPeaks(spectrogram, found) == spectrogram

(* The end of FingerprintVisualizer.findPeaks: the first peak becomes the
   anchor if there is a peak; otherwise index and pairs stay as they are. *)
SelectFirstAnchor(found, index, oldPairs, zone) ==
    IF Len(found) > 0
    THEN [index |-> 0, pairs |-> CreatePairsForCurrentAnchor(found, 0, zone).pairs]
    ELSE [index |-> index, pairs |-> oldPairs]

-----------------------------------------------------------------------------
(* Pairing stage on its own: the peak list is an input, the target zone is
   the configured one. *)

MaxPeaks == 3

(* Peaks around the borders of the zone of the anchor (10,30): dt = 4, 5,
   100, 101, df = 50, 51, a shared time index, and the pair (10,30),(40,60). *)
PeakPoints ==
    { Peak(10, 30, 1), Peak(40, 60, 1), Peak(14, 30, 1), Peak(15, 80, 1),
      Peak(15, 81, 1), Peak(110, 30, 1), Peak(111, 30, 1), Peak(10, 60, 1) }

PeakLists == UNION { [1..n -> PeakPoints] : n \in 0..MaxPeaks }

configuredFftSize == 2048
configuredPeakNeighborhood == 15
configuredMinDistance == 20

(* A frequency matrix [time][frequency] of byte values, as the spectrogram
   plugin hands it out: frames rows of bins cells that hold base, but for the
   cells of tones. *)
Matrix(frames, bins, base, tones) ==
    [frames |-> frames, bins |-> bins, base |-> base, tones |-> tones]

(* this.frequencies = null *)
NoFrequencies == [isNull |-> TRUE, data |-> Matrix(0, 0, 0, [cell \in {} |-> 0])]

(* The interactive parts after construction: no peak hovered and no
   animation frame requested; the plugin without canvas, not ready; the
   player stopped without AudioContext; the AudioLoader stopped at offset 0
   (null is 0 for the canvas, the observer and the sources, which are
   numbered from 1). *)
UiInit ==
    /\ hoveredPeakIndex = -1
    /\ pendingFrames = 0
    /\ plugin = [peaks |-> <<>>, frequencies |-> NoFrequencies, isReady |-> FALSE,
                 canvas |-> 0, resizeObserver |-> 0]
    /\ wrapper = [overlays |-> 0, observers |-> 0]
    /\ player = [isPlaying |-> FALSE, audioSource |-> 0, currentTime |-> 0, startTime |-> 0]
    /\ context = [exists |-> FALSE, currentTime |-> 0, created |-> 0, playing |-> {},
                  ended |-> {}]
    /\ loader = [source |-> 0, startTime |-> 0, offset |-> 0]
    /\ loaderContext = [currentTime |-> 0, created |-> 0, playing |-> {}]

(* No FFT constructed yet. *)
NoFFT == [class |-> "none", size |-> 0, cosTable |-> <<>>, sinTable |-> <<>>,
          reverseTable |-> <<>>]

(* What a call of forward leaves: whether it returned, the array it
   returned and whether that array was allocated by the call, the array the
   butterfly passes started on (real parts), and the input array after the
   call. *)
NoCall == [outcome |-> "none", reordered |-> <<>>, fresh |-> FALSE]

(* FingerprintVisualizer.draw, as far as it can fail: with an anchor index set
   it reads this.peaks[this.currentAnchorIndex].t. *)
DrawRaises(spectrogram, peakList, index) ==
    IF spectrogram.isNull THEN "none"
    ELSE IF index >= 0 /\ index >= Len(peakList) THEN "TypeError"
    ELSE "none"

PairInit ==
    /\ fftSize = configuredFftSize
    /\ peakNeighborhood = configuredPeakNeighborhood
    /\ minDistance = configuredMinDistance
    /\ targetZone = ConfiguredZone
    /\ audioData = NoAudio
    /\ spectrogramData = [Constellation |-> Null, Fingerprint |-> Null, Spectrogram |-> Rows(<<>>)]
    /\ \E list \in PeakLists : peaks = [Constellation |-> list, Fingerprint |-> list]
    /\ pairs = [Constellation |-> <<>>, Fingerprint |-> <<>>]
    /\ currentAnchorIndex = -1
    /\ lastSampleRead = -1
    /\ raised = "none"
    /\ lastOp = "init"
    /\ fft = NoFFT
    /\ fftInput = <<>>
    /\ fftOutput = <<>>
    /\ fftCall = NoCall
    /\ UiInit

(* ConstellationVisualizer.createPairs() *)
RunCreatePairs ==
    /\ pairs' = [pairs EXCEPT !.Constellation = CreatePairs(peaks.Constellation, targetZone)]
    /\ peaks' = [peaks EXCEPT !.Constellation = PeaksAfterCreatePairs(peaks.Constellation)]
    /\ raised' = "none"
    /\ lastOp' = "createPairs"
    /\ UNCHANGED <<configVars, uiVars, fftVars, audioData, spectrogramData,
                   currentAnchorIndex, lastSampleRead>>

(* FingerprintVisualizer.nextAnchor() *)
NextAnchor ==
    /\ IF Len(peaks.Fingerprint) = 0
       THEN /\ raised' = "none"
            /\ UNCHANGED <<currentAnchorIndex, pairs>>
       ELSE LET index == (currentAnchorIndex + 1) % Len(peaks.Fingerprint)
                made == CreatePairsForCurrentAnchor(peaks.Fingerprint, index, targetZone)
            IN  /\ currentAnchorIndex' = index
                /\ pairs' = [pairs EXCEPT !.Fingerprint = made.pairs]
                /\ raised' = IF made.raised # "none" THEN made.raised
                             ELSE DrawRaises(spectrogramData.Fingerprint, peaks.Fingerprint, index)
    /\ lastOp' = "nextAnchor"
    /\ UNCHANGED <<configVars, uiVars, fftVars, audioData, spectrogramData, peaks, lastSampleRead>>

PairNext == RunCreatePairs \/ NextAnchor

PairSpec == PairInit /\ [][PairNext]_vars

(* A pair lies inside the configured zone (5, 100, 50), target after anchor. *)
PairInZone(p) ==
    /\ minTargetDt <= p.target.t - p.anchor.t
    /\ p.target.t - p.anchor.t <= maxTargetDt
    /\ Abs(p.target.f - p.anchor.f) <= maxFreqDelta
    /\ p.target.t > p.anchor.t

(* C1: every pair made by createPairs (batch mode) and by
   createPairsForCurrentAnchor (single-anchor mode) under the configured zone
   (5, 100, 50) has minDt <= target.t - anchor.t <= maxDt and
   |target.f - anchor.f| <= maxDf, so target.t > anchor.t. *)
PairsInsideTargetZone ==
    /\ \A k \in 1..Len(pairs.Constellation) : PairInZone(pairs.Constellation[k])
    /\ \A k \in 1..Len(pairs.Fingerprint) : PairInZone(pairs.Fingerprint[k])

PairsInsideTargetZoneWitness ==
    /\ Len(pairs.Constellation) >= 2
    /\ Len(pairs.Fingerprint) >= 1
    /\ \E k \in 1..Len(peaks.Constellation) : peaks.Constellation[k] = Peak(15, 81, 1)

(* Number of positions of list that hold x. *)
Count(list, x) == Cardinality({k \in 1..Len(list) : list[k] = x})

(* The peak b lies in the configured zone of the anchor a. *)
Qualifies(a, b) ==
    /\ minTargetDt <= b.t - a.t /\ b.t - a.t <= maxTargetDt
    /\ Abs(b.f - a.f) <= maxFreqDelta

(* C2: after createPairs the pair list holds exactly one pair for each
   ordered pair of peaks (list positions) inside the zone and no other pair;
   the peaks (10,30),(40,60) give the single pair (10,30) -> (40,60). *)
CreatePairsExact ==
    lastOp = "createPairs" =>
        /\ \A a \in PeakPoints, b \in PeakPoints :
              Count(pairs.Constellation, Pair(a, b)) =
                  IF Qualifies(a, b)
                  THEN Count(peaks.Constellation, a) * Count(peaks.Constellation, b)
                  ELSE 0
        /\ \A k \in 1..Len(pairs.Constellation) :
              /\ pairs.Constellation[k].anchor \in PeakPoints
              /\ pairs.Constellation[k].target \in PeakPoints
        /\ peaks.Constellation = <<Peak(10, 30, 1), Peak(40, 60, 1)>>
              => pairs.Constellation = <<Pair(Peak(10, 30, 1), Peak(40, 60, 1))>>

CreatePairsExactWitness ==
    /\ lastOp = "createPairs"
    /\ peaks.Constellation = <<Peak(40, 60, 1), Peak(10, 60, 1), Peak(10, 30, 1)>>
    /\ Len(pairs.Constellation) = 2

(* Zones with minDt >= 1: the configured one, and narrower and wider ones
   around the time and frequency distances of PeakPoints. *)
PairingZones ==
    { ConfiguredZone,
      [minDt |-> 1, maxDt |-> maxTargetDt, maxDf |-> maxFreqDelta],
      [minDt |-> 1, maxDt |-> minTargetDt, maxDf |-> 0],
      [minDt |-> minTargetDt - 1, maxDt |-> maxTargetDt + 1, maxDf |-> maxFreqDelta + 1] }

(* The elements of a list. *)
Elements(list) == { list[k] : k \in 1..Len(list) }

(* The pairs of single-anchor mode for every anchor index of peakList. *)
SingleAnchorUnion(peakList, zone) ==
    UNION { Elements(CreatePairsForCurrentAnchor(peakList, index, zone).pairs) :
               index \in 0..(Len(peakList) - 1) }

(* C15: for the peak list of the visualizers and every zone with
   minDt >= 1, the union over every anchor index of the pairs of
   createPairsForCurrentAnchor is, as a set of (anchor, target) pairs, the
   result of createPairs; so the pairs createPairs left are that union and
   the pairs nextAnchor left are among those of createPairs. *)
PairingStrategiesAgree ==
    /\ \A zone \in PairingZones :
          SingleAnchorUnion(peaks.Fingerprint, zone) =
              Elements(CreatePairs(peaks.Constellation, zone))
    /\ lastOp = "createPairs" =>
          Elements(pairs.Constellation) = SingleAnchorUnion(peaks.Fingerprint, targetZone)
    /\ (lastOp = "nextAnchor" /\ raised = "none") =>
          Elements(pairs.Fingerprint) \subseteq
              Elements(CreatePairs(peaks.Constellation, targetZone))

(* Both modes have run on an unsorted list of three peaks that holds pairs
   for two anchors. *)
PairingStrategiesAgreeWitness ==
    /\ lastOp = "createPairs"
    /\ currentAnchorIndex = 1
    /\ peaks.Constellation = <<Peak(40, 60, 1), Peak(10, 60, 1), Peak(10, 30, 1)>>
    /\ Len(pairs.Constellation) = 2
    /\ Len(pairs.Fingerprint) = 1

-----------------------------------------------------------------------------
(* The visualizers fed by the application: loadAudio hands one signal to the
   three setAudioData methods; nextAnchor, findPeaks and createPairs are
   called on their own.  The frame size and the peak parameters are scaled down so that a
   spectrogram of MaxFrames rows holds every case. *)

MaxFrames == 5

(* fftSize 32: 16 bins per row, 4 of them scanned, hop 8. *)
FftSizes == {32}

(* peakNeighborhood and minDistance: the configured 15 and 20 scaled down
   (a distance beyond the neighborhood), and a distance of 0. *)
PeakParameters ==
    { [neighborhood |-> 1, dist |-> 3], [neighborhood |-> 0, dist |-> 2],
      [neighborhood |-> 1, dist |-> 0] }

ScaledZone == [minDt |-> 1, maxDt |-> 2, maxDf |-> 1]

(* Decibel levels (double values): digital silence, a noise floor and two
   tone levels that single precision does not hold exactly, and a loud tone
   that it does. *)
SilenceLevel == silenceDecibels * DbUnit

NoiseLevel == minDecibels * DbUnit + 1

SoftLevel == -75 * DbUnit - 1

LoudLevel == -40 * DbUnit

(* Cells (frame, bin) that may carry a tone. *)
ToneCells == {<<1, 1>>, <<2, 2>>, <<3, 1>>}

ToneMaps == [ToneCells -> {"none", "soft", "loud"}]

MakeSignal(len, n, floor, tones) ==
    [len |-> len,
     db |-> [i \in 1..CompleteFrames(len, n) |->
               [j \in 1..FrequencyBinCount(n) |->
                  IF <<i - 1, j - 1>> \in ToneCells /\ tones[<<i - 1, j - 1>>] = "soft" THEN SoftLevel
                  ELSE IF <<i - 1, j - 1>> \in ToneCells /\ tones[<<i - 1, j - 1>>] = "loud" THEN LoudLevel
                  ELSE floor]]]

NoTones == [c \in ToneCells |-> "none"]

(* Signals: shorter than a frame, exactly one frame, one hop more, and
   MaxFrames hops and a bit more; silence, a noise floor, and tones over the
   noise floor. *)
Signals(n) ==
    { MakeSignal(n - 12, n, SilenceLevel, NoTones) }
    \cup { MakeSignal(len, n, floor, NoTones) :
              len \in {n, n + HopSize(n)}, floor \in {SilenceLevel, NoiseLevel} }
    \cup { MakeSignal(n + MaxFrames * HopSize(n) + 3, n, SilenceLevel, NoTones) }
    \cup { MakeSignal(n + MaxFrames * HopSize(n) + 3, n, NoiseLevel, tones) :
              tones \in ToneMaps }

(* What the two processSpectrogramData make of every signal of the model
   (evaluated once per signal). *)
BuiltOf == [n \in FftSizes |-> [sig \in Signals(n) |-> ProcessSpectrogramData(sig, n)]]

SpectrogramBuiltOf ==
    [n \in FftSizes |-> [sig \in Signals(n) |-> SpectrogramProcessSpectrogramData(sig, n)]]

Init ==
    /\ fftSize \in FftSizes
    /\ \E p \in PeakParameters :
          /\ peakNeighborhood = p.neighborhood
          /\ minDistance = p.dist
    /\ targetZone = ScaledZone
    /\ audioData = NoAudio
    /\ spectrogramData = [Constellation |-> Null, Fingerprint |-> Null, Spectrogram |-> Rows(<<>>)]
    /\ peaks = [Constellation |-> <<>>, Fingerprint |-> <<>>]
    /\ pairs = [Constellation |-> <<>>, Fingerprint |-> <<>>]
    /\ currentAnchorIndex = -1
    /\ lastSampleRead = -1
    /\ raised = "none"
    /\ lastOp = "init"
    /\ fft = NoFFT
    /\ fftInput = <<>>
    /\ fftOutput = <<>>
    /\ fftCall = NoCall
    /\ UiInit

(* ShazamVisualizer.loadAudio, after the decoding: setAudioData of the
   spectrogram, the constellation and the fingerprint visualizer.
   ConstellationVisualizer.setAudioData: processSpectrogramData (with
   findPeaks and createPairs), draw.  FingerprintVisualizer.setAudioData:
   processSpectrogramData, findPeaks, draw. *)
LoadAudio(sig) ==
    LET spectro == SpectrogramBuiltOf[fftSize][sig]
        built == BuiltOf[fftSize][sig]
        cPeaks == FindPeaks(Rows(built.matrix), peaks.Constellation, peakNeighborhood,
                            minDistance, NumBins(fftSize))
        fPeaks == FindPeaks(Rows(built.matrix), peaks.Fingerprint, peakNeighborhood,
                            minDistance, NumBins(fftSize))
        anchor == SelectFirstAnchor(fPeaks, currentAnchorIndex, pairs.Fingerprint, targetZone)
    IN  /\ audioData' = sig
        /\ spectrogramData' =
              [Constellation |-> SpectrogramAfterFindPeaks(Rows(built.matrix), cPeaks),
               Fingerprint |-> SpectrogramAfterFindPeaks(Rows(built.matrix), fPeaks),
               Spectrogram |-> Rows(spectro.matrix)]
        /\ peaks' = [Constellation |-> PeaksAfterCreatePairs(cPeaks), Fingerprint |-> fPeaks]
        /\ pairs' = [Constellation |-> CreatePairs(cPeaks, targetZone),
                     Fingerprint |-> anchor.pairs]
        /\ currentAnchorIndex' = anchor.index
        /\ lastSampleRead' = built.lastRead
        /\ raised' = DrawRaises(Rows(built.matrix), fPeaks, anchor.index)
        /\ lastOp' = "setAudioData"
        /\ UNCHANGED <<configVars, uiVars, fftVars>>

(* findPeaks() called again on both visualizers. *)
RunFindPeaks ==
    LET cPeaks == FindPeaks(spectrogramData.Constellation, peaks.Constellation,
                            peakNeighborhood, minDistance, NumBins(fftSize))
        fPeaks == FindPeaks(spectrogramData.Fingerprint, peaks.Fingerprint,
                            peakNeighborhood, minDistance, NumBins(fftSize))
        anchor == SelectFirstAnchor(fPeaks, currentAnchorIndex, pairs.Fingerprint, targetZone)
    IN  /\ peaks' = [Constellation |-> cPeaks, Fingerprint |-> fPeaks]
        /\ spectrogramData' =
              [spectrogramData EXCEPT
                  !.Constellation = SpectrogramAfterFindPeaks(@, cPeaks),
                  !.Fingerprint = SpectrogramAfterFindPeaks(@, fPeaks)]
        /\ pairs' = [pairs EXCEPT !.Fingerprint = anchor.pairs]
        /\ currentAnchorIndex' = anchor.index
        /\ raised' = "none"
        /\ lastOp' = "findPeaks"
        /\ UNCHANGED <<configVars, uiVars, fftVars, audioData, lastSampleRead>>

Next ==
    \/ \E sig \in Signals(fftSize) : LoadAudio(sig)
    \/ RunFindPeaks
    \/ RunCreatePairs
    \/ NextAnchor

Spec == Init /\ [][Next]_vars

-----------------------------------------------------------------------------
(* Properties of the visualizers. *)

Visualizers == {"Constellation", "Fingerprint"}

(* C3: the peak list left by findPeaks of either visualizer holds no two
   distinct peaks with |t1 - t2| < minDistance and |f1 - f2| < minDistance
   at the same time. *)
PeaksKeepMinDistance ==
    \A v \in Visualizers :
        \A a \in 1..Len(peaks[v]), b \in 1..Len(peaks[v]) :
            a # b => ~(/\ Abs(peaks[v][a].t - peaks[v][b].t) < minDistance
                       /\ Abs(peaks[v][a].f - peaks[v][b].f) < minDistance)

(* Two tones stand at a distance below minDistance, both are local maxima
   above the threshold, and findPeaks kept the first one only. *)
PeaksKeepMinDistanceWitness ==
    /\ lastOp \in {"setAudioData", "findPeaks"}
    /\ peakNeighborhood = 1
    /\ minDistance = 3
    /\ ~spectrogramData.Constellation.isNull
    /\ Len(spectrogramData.Constellation.rows) >= 5
    /\ IsPeak(spectrogramData.Constellation.rows, peakNeighborhood, 1, 1)
    /\ IsPeak(spectrogramData.Constellation.rows, peakNeighborhood, 3, 1)
    /\ Len(peaks.Constellation) = 1
    /\ Len(peaks.Fingerprint) = 1
    /\ peaks.Constellation[1].t = 1

(* The decibel rows of the frames processSpectrogramData reads. *)
ProcessedDecibels(sig, n) == [i \in 1..Max(NumFrames(sig.len, n), 0) |-> sig.db[i]]

(* The signal holds at least one frame and every sample is 0. *)
IsSilent(sig, n) ==
    /\ sig.len >= n
    /\ \A i \in 1..Len(sig.db), j \in 1..FrequencyBinCount(n) : sig.db[i][j] = SilenceLevel

AllVisualizers == {"Constellation", "Fingerprint", "Spectrogram"}

(* C4: a silent signal of at least one frame yields spectrograms
   (Constellation, Fingerprint, Spectrogram) in which every normalized cell
   equals 0, none is NaN. *)
SilentSignalAllZero ==
    IsSilent(audioData, fftSize) =>
        \A v \in AllVisualizers :
            \A i \in 1..Len(spectrogramData[v].rows), j \in 1..FrequencyBinCount(fftSize) :
                spectrogramData[v].rows[i][j] = 0

(* C5: after setAudioData with a signal shorter than one frame the
   spectrograms have zero rows, nothing is raised, and the peak lists and
   the pair lists of both visualizers are empty. *)
ShortSignalEmpty ==
    (lastOp = "setAudioData" /\ audioData.len < fftSize) =>
        /\ \A v \in AllVisualizers :
              ~spectrogramData[v].isNull /\ Len(spectrogramData[v].rows) = 0
        /\ raised = "none"
        /\ \A v \in Visualizers : peaks[v] = <<>> /\ pairs[v] = <<>>

(* C6: findPeaks run again on the same spectrogramData with the same
   parameters leaves the same peak list, element for element and in the
   same order, whatever the list held before. *)
FindPeaksIdempotent ==
    [][(lastOp \in {"setAudioData", "findPeaks"} /\ lastOp' = "findPeaks")
          => peaks' = peaks]_vars

(* findPeaks has run on a spectrogram on which it had run before, and left
   several peaks. *)
FindPeaksIdempotentWitness ==
    /\ lastOp = "findPeaks"
    /\ ~spectrogramData.Constellation.isNull
    /\ Len(peaks.Constellation) >= 2
    /\ Len(peaks.Fingerprint) >= 2
    /\ minDistance = 0

(* What a visualizer constructed anew holds after setAudioData(sig). *)
FreshAnalysis(sig) ==
    LET built == ProcessSpectrogramData(sig, fftSize)
        found == FindPeaks(Rows(built.matrix), <<>>, peakNeighborhood, minDistance,
                           NumBins(fftSize))
        anchor == SelectFirstAnchor(found, -1, <<>>, targetZone)
    IN  [spectrogramData |-> Rows(built.matrix),
         peaks |-> found,
         pairs |-> [Constellation |-> CreatePairs(found, targetZone),
                    Fingerprint |-> anchor.pairs],
         currentAnchorIndex |-> anchor.index]

(* C7: after any sequence of setAudioData calls, spectrogramData, peaks,
   pairs and the selected anchor of the Fingerprint visualizer are those
   computed from the last signal only. *)
ReanalysisReplacesAll ==
    lastOp = "setAudioData" =>
        LET fresh == FreshAnalysis(audioData)
        IN  /\ \A v \in Visualizers :
                  /\ spectrogramData[v] = fresh.spectrogramData
                  /\ peaks[v] = fresh.peaks
                  /\ pairs[v] = fresh.pairs[v]
            /\ currentAnchorIndex = fresh.currentAnchorIndex

(* C8: for a signal whose decibel values are not all equal every cell of
   the spectrogram built by processSpectrogramData lies in [0, 1], and every
   row has frequencyBinCount = fftSize / 2 cells. *)
CellsInUnitRange ==
    Cardinality(CellValues(ProcessedDecibels(audioData, fftSize))) > 1 =>
        \A v \in AllVisualizers :
            \A i \in 1..Len(spectrogramData[v].rows) :
                /\ Len(spectrogramData[v].rows[i]) = fftSize \div 2
                /\ \A j \in 1..Len(spectrogramData[v].rows[i]) :
                      /\ ~IsNaN(spectrogramData[v].rows[i][j])
                      /\ spectrogramData[v].rows[i][j] >= 0
                      /\ spectrogramData[v].rows[i][j] <= CellScale

(* C9: for a signal of L >= N samples processSpectrogramData produces
   floor((L - N) / H) rows, H = N / 4; row i is made of the frame that starts
   at sample i * H, every sample index read is below L, and no row is made
   of a frame that reaches past the signal. *)
RowsAreCompleteFrames ==
    (lastOp = "setAudioData" /\ audioData.len >= fftSize) =>
        LET count == (audioData.len - fftSize) \div (fftSize \div 4)
            decibels == ProcessedDecibels(audioData, fftSize)
            globalMin == GlobalMin(decibels)
            globalMax == GlobalMax(decibels)
        IN  /\ \A v \in AllVisualizers : Len(spectrogramData[v].rows) = count
            /\ lastSampleRead < audioData.len
            /\ \A i \in 1..count :
                  /\ (i - 1) * (fftSize \div 4) + fftSize <= audioData.len
                  /\ \A j \in 1..(fftSize \div 2) :
                        /\ spectrogramData.Spectrogram.rows[i][j] =
                              Pow15(Normalize(Fround(Clamp(audioData.db[i][j])),
                                              minDecibels * DbUnit,
                                              (maxDecibels - minDecibels) * DbUnit))
                        /\ \A v \in Visualizers :
                              spectrogramData[v].rows[i][j] =
                                  Normalize(StoreDecibels(audioData.db[i][j]), globalMin,
                                            globalMax - globalMin)

(* A signal of MaxFrames hops and three samples beyond a frame gave
   MaxFrames rows, the last one ending before the end of the signal. *)
RowsAreCompleteFramesWitness ==
    /\ lastOp = "setAudioData"
    /\ audioData.len = fftSize + MaxFrames * (fftSize \div 4) + 3
    /\ Len(spectrogramData.Constellation.rows) = MaxFrames
    /\ Len(spectrogramData.Spectrogram.rows) = MaxFrames
    /\ lastSampleRead = audioData.len - (fftSize \div 4) - 4
    /\ \E i \in 1..MaxFrames, j \in 1..(fftSize \div 2) :
          audioData.db[i][j] = LoudLevel

(* C19: findPeaks scans the lower quarter of the bins and the interior of
   the matrix only: every accepted peak has
   neighborhood <= t < numFrames - neighborhood and
   neighborhood <= f < floor(frequencyBinCount / 4) - neighborhood, and every
   cell read lies in rows [0, numFrames) and bins [0, frequencyBinCount / 4). *)
ScanStaysInside ==
    \A v \in Visualizers :
        ~spectrogramData[v].isNull =>
            LET numFrames == Len(spectrogramData[v].rows)
                quarter == (fftSize \div 2) \div 4
            IN  /\ \A k \in 1..Len(peaks[v]) :
                      /\ peakNeighborhood <= peaks[v][k].t
                      /\ peaks[v][k].t < numFrames - peakNeighborhood
                      /\ peakNeighborhood <= peaks[v][k].f
                      /\ peaks[v][k].f < quarter - peakNeighborhood
                /\ \A cell \in CellsRead(numFrames, peakNeighborhood, NumBins(fftSize)) :
                      /\ 0 <= cell[1] /\ cell[1] < numFrames
                      /\ 0 <= cell[2] /\ cell[2] < quarter

(* findPeaks accepted a tone in the last scanned bin, next to the border
   of the lower quarter, and a peak in the first scanned row. *)
ScanStaysInsideWitness ==
    /\ lastOp \in {"setAudioData", "findPeaks"}
    /\ peakNeighborhood = 1
    /\ Len(spectrogramData.Constellation.rows) = MaxFrames
    /\ \E k \in 1..Len(peaks.Constellation) :
          peaks.Constellation[k].f = NumBins(fftSize) - peakNeighborhood - 1
    /\ \E k \in 1..Len(peaks.Fingerprint) : peaks.Fingerprint[k].t = peakNeighborhood

(* a is a number strictly greater than the number b. *)
Greater(a, b) == ~IsNaN(a) /\ ~IsNaN(b) /\ a > b

(* The cell (t, f) is strictly greater than every other cell of the
   (2 * neighborhood + 1)-square window centred on it and is at least the
   threshold. *)
IsCandidate(matrix, neighborhood, t, f) ==
    LET value == matrix[t + 1][f + 1]
    IN  /\ \A dt \in -neighborhood..neighborhood, df \in -neighborhood..neighborhood :
              (dt = 0 /\ df = 0) \/ Greater(value, matrix[t + dt + 1][f + df + 1])
        /\ ~IsNaN(value)
        /\ value >= PeakThreshold

(* C16: findPeaks treats a cell as a peak candidate iff its value is
   strictly greater than every other cell of its window and at least
   peakThreshold: every accepted peak satisfies both conditions, and every
   scanned cell that satisfies them is accepted unless an accepted peak is
   within minDistance of it. *)
AcceptedPeaksAreCandidates ==
    \A v \in Visualizers :
        ~spectrogramData[v].isNull =>
            LET matrix == spectrogramData[v].rows
            IN  /\ \A k \in 1..Len(peaks[v]) :
                      IsCandidate(matrix, peakNeighborhood, peaks[v][k].t, peaks[v][k].f)
                /\ \A t \in peakNeighborhood..(Len(matrix) - peakNeighborhood - 1),
                      f \in peakNeighborhood..(NumBins(fftSize) - peakNeighborhood - 1) :
                      IsCandidate(matrix, peakNeighborhood, t, f) =>
                          \/ \E k \in 1..Len(peaks[v]) :
                                peaks[v][k].t = t /\ peaks[v][k].f = f
                          \/ TooClose(peaks[v], minDistance, t, f)

(* The scanned cells in time-major, frequency-ascending order: cell number
   i (from 1) of a scan of width bins per row. *)
ScanCell(i, neighborhood, width) ==
    [t |-> neighborhood + ((i - 1) \div width), f |-> neighborhood + ((i - 1) % width)]

(* Reference selection: the cells i, i + 1, ... up to count are taken in
   scan order, and a cell the program treats as a local maximum above the
   threshold is accepted iff no peak accepted before it is within dist of it
   on both axes. *)
RECURSIVE GreedySelection(_, _, _, _, _, _, _)
GreedySelection(matrix, neighborhood, dist, width, count, i, accepted) ==
    IF i > count THEN accepted
    ELSE LET cell == ScanCell(i, neighborhood, width)
             near == \E k \in 1..Len(accepted) :
                        /\ Abs(cell.t - accepted[k].t) < dist
                        /\ Abs(cell.f - accepted[k].f) < dist
         IN  GreedySelection(matrix, neighborhood, dist, width, count, i + 1,
                             IF IsPeak(matrix, neighborhood, cell.t, cell.f) /\ ~near
                             THEN Append(accepted, Peak(cell.t, cell.f,
                                                        matrix[cell.t + 1][cell.f + 1]))
                             ELSE accepted)

(* C17: findPeaks visits the cells in time-major, frequency-ascending order
   and accepts a candidate iff no peak accepted before lies within
   minDistance of it on both axes: the peak list equals the greedy
   scan-order selection of the reference, and is sorted ascending by
   (t, f). *)
PeaksAreGreedyScanOrderSelection ==
    \A v \in Visualizers :
        ~spectrogramData[v].isNull =>
            LET matrix == spectrogramData[v].rows
                height == Max(Len(matrix) - 2 * peakNeighborhood, 0)
                width == Max(NumBins(fftSize) - 2 * peakNeighborhood, 0)
            IN  /\ peaks[v] = GreedySelection(matrix, peakNeighborhood, minDistance, width,
                                              height * width, 1, <<>>)
                /\ \A a \in 1..Len(peaks[v]), b \in 1..Len(peaks[v]) :
                      a < b => \/ peaks[v][a].t < peaks[v][b].t
                               \/ /\ peaks[v][a].t = peaks[v][b].t
                                  /\ peaks[v][a].f < peaks[v][b].f

(* On a spectrogram of numbers findPeaks accepted peaks in two rows and
   rejected a local maximum above the threshold that is too close to an
   accepted one. *)
PeaksAreGreedyScanOrderSelectionWitness ==
    /\ lastOp \in {"setAudioData", "findPeaks"}
    /\ ~spectrogramData.Fingerprint.isNull
    /\ NaN \notin CellValues(spectrogramData.Fingerprint.rows)
    /\ minDistance > 0
    /\ \E a \in 1..Len(peaks.Fingerprint), b \in 1..Len(peaks.Fingerprint) :
          peaks.Fingerprint[a].t < peaks.Fingerprint[b].t
    /\ \E t \in peakNeighborhood..(Len(spectrogramData.Fingerprint.rows) - peakNeighborhood - 1),
          f \in peakNeighborhood..(NumBins(fftSize) - peakNeighborhood - 1) :
          /\ IsPeak(spectrogramData.Fingerprint.rows, peakNeighborhood, t, f)
          /\ \A k \in 1..Len(peaks.Fingerprint) :
                peaks.Fingerprint[k].t # t \/ peaks.Fingerprint[k].f # f

(* C14: no pipeline stage mutates its upstream structure: setAudioData
   (processSpectrogramData, findPeaks, createPairs, draw) leaves the signal
   it was handed in audioData, the matrix processSpectrogramData built in
   spectrogramData and the list findPeaks found in peaks; findPeaks leaves
   audioData and spectrogramData unchanged; createPairs and nextAnchor
   (createPairsForCurrentAnchor, draw) leave audioData, spectrogramData and
   the peak list unchanged, same elements in the same order. *)
UpstreamUnchanged ==
    [][/\ lastOp' = "setAudioData" =>
             /\ audioData' \in DOMAIN BuiltOf[fftSize]
             /\ \A v \in Visualizers :
                   /\ spectrogramData'[v] = Rows(BuiltOf[fftSize][audioData'].matrix)
                   /\ peaks'[v] = FindPeaks(spectrogramData'[v], <<>>, peakNeighborhood,
                                            minDistance, NumBins(fftSize))
       /\ lastOp' = "findPeaks" =>
             audioData' = audioData /\ spectrogramData' = spectrogramData
       /\ lastOp' \in {"createPairs", "nextAnchor"} =>
             /\ audioData' = audioData
             /\ spectrogramData' = spectrogramData
             /\ peaks' = peaks]_vars

(* createPairs and nextAnchor have run on a spectrogram with several peaks,
   which found pairs for both visualizers. *)
UpstreamUnchangedWitness ==
    /\ lastOp = "createPairs"
    /\ currentAnchorIndex = 1
    /\ audioData \in Signals(fftSize)
    /\ NaN \notin CellValues(spectrogramData.Constellation.rows)
    /\ Len(peaks.Constellation) >= 2
    /\ Len(pairs.Constellation) >= 1

(* C27: the spectrogram is empty only if the signal is shorter than one
   frame: for a signal of L >= N samples processSpectrogramData produces a
   row for every i >= 0 with i * H + N <= L, so at least one row. *)
RowForEveryCompleteFrame ==
    (lastOp = "setAudioData" /\ audioData.len >= fftSize) =>
        \A v \in AllVisualizers :
            /\ Len(spectrogramData[v].rows) >= 1
            /\ \A i \in 0..audioData.len :
                  i * (fftSize \div 4) + fftSize <= audioData.len
                      => i + 1 <= Len(spectrogramData[v].rows)

(* The decibel value lies between the configured floor and ceiling. *)
InDecibelRange(decibels) ==
    /\ ~IsNaN(decibels)
    /\ minDecibels * DbUnit <= decibels
    /\ decibels <= maxDecibels * DbUnit

(* C20: in each processSpectrogramData every decibel value is clamped to
   [minDecibels, maxDecibels] = [-90, -20] before the global minimum and
   maximum are taken and before the normalization: the values stored for
   the normalization, and the minimum and maximum of a spectrogram with
   rows, lie in that range. *)
DecibelsClampedBeforeNormalization ==
    audioData # NoAudio =>
        \A built \in {BuiltOf[fftSize][audioData], SpectrogramBuiltOf[fftSize][audioData]} :
            /\ \A i \in 1..Len(built.tempData), j \in 1..FrequencyBinCount(fftSize) :
                  InDecibelRange(built.tempData[i][j])
            /\ Len(built.tempData) > 0 =>
                  InDecibelRange(built.globalMin) /\ InDecibelRange(built.globalMax)

-----------------------------------------------------------------------------
(* The two transforms: class FFT of utils/fft.js (used by the constellation
   and the fingerprint visualizer) and class FFT of
   visualizations/spectrogram.js.

   For the sizes 1, 2 and 4 every table entry is the cosine or the sine of a
   whole number of quarter turns, so the arithmetic is exact in integers
   (Math.cos(Math.PI / 2) is 6.1e-17 in the program, 0 here), and the samples
   are integers, which both Float32Array and Float64Array hold exactly.  A
   table entry of another angle (size 3) is SomeDouble: a finite value the
   model does not resolve.  Arrays are functions on 0 .. length - 1, as in
   the program. *)

MaxAmplitude == 1

(* Lengths of the frames handed to forward. *)
FrameSizes == {1, 2, 4}

(* Sizes an FFT is constructed with. *)
InstanceSizes == {1, 2, 3, 4, 8}

Buffers == UNION { [0..(n - 1) -> (-MaxAmplitude)..MaxAmplitude] : n \in FrameSizes }

SizeOf(array) == Cardinality(DOMAIN array)

(* A finite double that is no integer of the model. *)
SomeDouble == 2 * Infinity

(* a + b, a - b and a * b of JavaScript on integers, SomeDouble and NaN. *)
JsAdd(a, b) ==
    IF IsNaN(a) \/ IsNaN(b) THEN NaN
    ELSE IF a = SomeDouble \/ b = SomeDouble THEN SomeDouble
    ELSE a + b

JsSub(a, b) ==
    IF IsNaN(a) \/ IsNaN(b) THEN NaN
    ELSE IF a = SomeDouble \/ b = SomeDouble THEN SomeDouble
    ELSE a - b

JsMul(a, b) ==
    IF IsNaN(a) \/ IsNaN(b) THEN NaN
    ELSE IF a = 0 \/ b = 0 THEN 0
    ELSE IF a = SomeDouble \/ b = SomeDouble THEN SomeDouble
    ELSE a * b

(* array[i] read as a number: undefined outside the array, which is NaN in
   arithmetic and in a typed array. *)
ReadAt(array, i) == IF i \in DOMAIN array THEN array[i] ELSE NaN

(* array[i] = x on a typed array: no effect outside the array. *)
WriteAt(array, i, x) == IF i \in DOMAIN array THEN [array EXCEPT ![i] = x] ELSE array

(* cos and sin of q quarter turns. *)
CosTurn(q) == CASE q % 4 = 0 -> 1 [] q % 4 = 2 -> -1 [] OTHER -> 0

SinTurn(q) == CASE q % 4 = 1 -> 1 [] q % 4 = 3 -> -1 [] OTHER -> 0

(* The angle 2 * PI * i / size in quarter turns (rounded down). *)
QuarterTurns(i, size) == (4 * i) \div size

(* The angle 2 * PI * i / size is a whole number of quarter turns. *)
IsQuarterTurn(i, size) == (4 * i) % size = 0

(* utils/fft.js: angle = (2 * Math.PI * i) / size *)
cosTable(size) ==
    [i \in 0..(size - 1) |->
        IF IsQuarterTurn(i, size) THEN CosTurn(QuarterTurns(i, size)) ELSE SomeDouble]

sinTable(size) ==
    [i \in 0..(size - 1) |->
        IF IsQuarterTurn(i, size) THEN SinTurn(QuarterTurns(i, size)) ELSE SomeDouble]

(* Copy input to output, interleaving with zeros for imaginary parts. *)
Interleave(input, n) ==
    [m \in 0..(2 * n - 1) |-> IF m % 2 = 0 THEN ReadAt(input, m \div 2) ELSE 0]

(* Swap of the real and the imaginary parts of the entries i and j. *)
Swap(output, i, j) ==
    [output EXCEPT ![i * 2] = output[j * 2], ![j * 2] = output[i * 2],
                   ![i * 2 + 1] = output[j * 2 + 1], ![j * 2 + 1] = output[i * 2 + 1]]

(* The value of ReverseStep for a loop that never ends. *)
Diverges == -1

(* while (k <= j) { j -= k; k >>= 1; }  j += k;  With k = 0 the loop changes
   neither j nor k and never ends. *)
RECURSIVE ReverseStep(_, _)
ReverseStep(j, k) ==
    IF k <= j
    THEN IF k = 0 THEN Diverges ELSE ReverseStep(j - k, k \div 2)
    ELSE j + k

(* The bit reversal loop from i on: the array it leaves, and whether it
   ends. *)
RECURSIVE BitReversal(_, _, _, _)
BitReversal(output, n, i, j) ==
    IF i >= n - 1 THEN [ends |-> TRUE, array |-> output]
    ELSE LET swapped == IF i < j THEN Swap(output, i, j) ELSE output
             next == ReverseStep(j, n \div 2)
         IN  IF next = Diverges THEN [ends |-> FALSE, array |-> swapped]
             ELSE BitReversal(swapped, n, i + 1, next)

(* Mutant: the table index advances by n / step per pair. *)
TwiddleIndexPerStep(n, step, pair) == pair * (n \div step)

(* this.sinTable[pair * (n / jump)], jump = step << 1 *)
TwiddleIndex(n, step, pair) == pair * (n \div (2 * step))

(* One butterfly of the stage step on the entries i and i + step. *)
Butterfly(output, tables, n, step, i, pair) ==
    LET j == i + step
        aReal == output[i * 2]
        aImag == output[i * 2 + 1]
        bReal == output[j * 2]
        bImag == output[j * 2 + 1]
        sin == ReadAt(tables.sinTable, TwiddleIndex(n, step, pair))
        cos == ReadAt(tables.cosTable, TwiddleIndex(n, step, pair))
        tReal == JsAdd(JsMul(bReal, cos), JsMul(bImag, sin))
        tImag == JsSub(JsMul(bImag, cos), JsMul(bReal, sin))
    IN  [output EXCEPT ![j * 2] = JsSub(aReal, tReal), ![j * 2 + 1] = JsSub(aImag, tImag),
                       ![i * 2] = JsAdd(aReal, tReal), ![i * 2 + 1] = JsAdd(aImag, tImag)]

(* The loops over group and pair of one stage; m counts the butterflies:
   group = floor(m / step) * jump, pair = m mod step. *)
RECURSIVE ButterflyLoop(_, _, _, _, _)
ButterflyLoop(output, tables, n, step, m) ==
    IF m >= n \div 2 THEN output
    ELSE ButterflyLoop(Butterfly(output, tables, n, step,
                                 (m \div step) * (2 * step) + (m % step), m % step),
                       tables, n, step, m + 1)

(* for (let step = 1; step < n; step <<= 1) *)
RECURSIVE StepLoop(_, _, _, _)
StepLoop(output, tables, n, step) ==
    IF step >= n THEN output
    ELSE StepLoop(ButterflyLoop(output, tables, n, step, 0), tables, n, 2 * step)

(* The real parts of an interleaved array. *)
RealParts(output) == [i \in 0..(SizeOf(output) \div 2 - 1) |-> output[i * 2]]

(* FFT.forward of utils/fft.js: real and imaginary parts interleaved. *)
forward(instance, input) ==
    LET n == instance.size
        reversal == BitReversal(Interleave(input, n), n, 0, 0)
    IN  IF reversal.ends
        THEN [outcome |-> "returned",
              output |-> StepLoop(reversal.array, instance, n, 1),
              reordered |-> RealParts(reversal.array),
              fresh |-> TRUE,
              input |-> input]
        ELSE [outcome |-> "hangs", output |-> <<>>, reordered |-> <<>>, fresh |-> FALSE,
              input |-> input]

(* spectrogram.js, initialize: for (let i = 0; i < limit; i++)
   this.reverseTable[i + limit] = this.reverseTable[i] + bit *)
RECURSIVE ReverseFill(_, _, _, _)
ReverseFill(table, limit, bit, i) ==
    IF i >= limit THEN table
    ELSE ReverseFill(WriteAt(table, i + limit, table[i] + bit), limit, bit, i + 1)

(* while (limit < this.size) *)
RECURSIVE ReverseLimits(_, _, _, _)
ReverseLimits(table, size, limit, bit) ==
    IF limit >= size THEN table
    ELSE ReverseLimits(ReverseFill(table, limit, bit, 0), size, 2 * limit, bit \div 2)

(* this.reverseTable after initialize. *)
reverseTable(size) == ReverseLimits([i \in 0..(size - 1) |-> 0], size, 1, size \div 2)

(* spectrogram.js: angle = -2 * Math.PI * i / this.size *)
LocalCosTable(size) ==
    [i \in 0..(size - 1) |->
        IF IsQuarterTurn(i, size) THEN CosTurn(-QuarterTurns(i, size)) ELSE SomeDouble]

LocalSinTable(size) ==
    [i \in 0..(size - 1) |->
        IF IsQuarterTurn(i, size) THEN SinTurn(-QuarterTurns(i, size)) ELSE SomeDouble]

(* real[i] = buffer[i] for every i below size, real a new Float64Array. *)
LocalCopy(instance, buffer) == [i \in 0..(instance.size - 1) |-> ReadAt(buffer, i)]

(* The body of the loop over i of FFT.forward of spectrogram.js. *)
LocalButterfly(arrays, halfSize, i, phase) ==
    LET off == i + halfSize
        realOff == ReadAt(arrays.real, off)
        imagOff == ReadAt(arrays.imag, off)
        tr == JsSub(JsMul(phase.re, realOff), JsMul(phase.im, imagOff))
        ti == JsAdd(JsMul(phase.re, imagOff), JsMul(phase.im, realOff))
    IN  [real |-> WriteAt(WriteAt(arrays.real, off, JsSub(arrays.real[i], tr)),
                          i, JsAdd(arrays.real[i], tr)),
         imag |-> WriteAt(WriteAt(arrays.imag, off, JsSub(arrays.imag[i], ti)),
                          i, JsAdd(arrays.imag[i], ti))]

(* for (let i = fftStep; i < this.size; i += 2 * halfSize) *)
RECURSIVE LocalInner(_, _, _, _, _)
LocalInner(arrays, size, halfSize, i, phase) ==
    IF i >= size THEN arrays
    ELSE LocalInner(LocalButterfly(arrays, halfSize, i, phase), size, halfSize,
                    i + 2 * halfSize, phase)

(* for (let fftStep = 0; fftStep < halfSize; fftStep++): phase is
   currentPhaseShift, advanced by cosTable[halfSize], sinTable[halfSize]. *)
RECURSIVE LocalSteps(_, _, _, _, _)
LocalSteps(arrays, instance, halfSize, fftStep, phase) ==
    IF fftStep >= halfSize THEN arrays
    ELSE LET phaseShiftStepReal == instance.cosTable[halfSize]
             phaseShiftStepImag == instance.sinTable[halfSize]
             next == [re |-> JsSub(JsMul(phase.re, phaseShiftStepReal),
                                   JsMul(phase.im, phaseShiftStepImag)),
                      im |-> JsAdd(JsMul(phase.re, phaseShiftStepImag),
                                   JsMul(phase.im, phaseShiftStepReal))]
         IN  LocalSteps(LocalInner(arrays, instance.size, halfSize, fftStep, phase),
                        instance, halfSize, fftStep + 1, next)

(* while (halfSize < this.size) *)
RECURSIVE LocalStages(_, _, _)
LocalStages(arrays, instance, halfSize) ==
    IF halfSize >= instance.size THEN arrays
    ELSE LocalStages(LocalSteps(arrays, instance, halfSize, 0, [re |-> 1, im |-> 0]),
                     instance, 2 * halfSize)

(* Mutant: the transform works in the array it was handed. *)
LocalForwardInPlace(instance, buffer) ==
    LET size == instance.size
        real == LocalCopy(instance, buffer)
        arrays == LocalStages([real |-> real, imag |-> [i \in 0..(size - 1) |-> 0]],
                              instance, 1)
    IN  [outcome |-> "returned",
         output |-> [m \in 0..(2 * size - 1) |->
                        IF m % 2 = 0 THEN arrays.real[m \div 2] ELSE arrays.imag[m \div 2]],
         reordered |-> real,
         fresh |-> FALSE,
         input |-> [i \in DOMAIN buffer |-> ReadAt(arrays.real, i)]]

(* FFT.forward of spectrogram.js; the reverseTable the constructor builds is
   not read. *)
LocalForward(instance, buffer) ==
    LET size == instance.size
        real == LocalCopy(instance, buffer)
        arrays == LocalStages([real |-> real, imag |-> [i \in 0..(size - 1) |-> 0]],
                              instance, 1)
    IN  [outcome |-> "returned",
         output |-> [m \in 0..(2 * size - 1) |->
                        IF m % 2 = 0 THEN arrays.real[m \div 2] ELSE arrays.imag[m \div 2]],
         reordered |-> real,
         fresh |-> TRUE,
         input |-> buffer]

(* new FFT(size) of utils/fft.js *)
UtilsFFT(size) ==
    [class |-> "utils", size |-> size, cosTable |-> cosTable(size),
     sinTable |-> sinTable(size), reverseTable |-> <<>>]

(* new FFT(size) of spectrogram.js *)
LocalFFT(size) ==
    [class |-> "local", size |-> size, cosTable |-> LocalCosTable(size),
     sinTable |-> LocalSinTable(size), reverseTable |-> reverseTable(size)]

FFTInit ==
    /\ fftSize = configuredFftSize
    /\ peakNeighborhood = configuredPeakNeighborhood
    /\ minDistance = configuredMinDistance
    /\ targetZone = ConfiguredZone
    /\ audioData = NoAudio
    /\ spectrogramData = [Constellation |-> Null, Fingerprint |-> Null, Spectrogram |-> Rows(<<>>)]
    /\ peaks = [Constellation |-> <<>>, Fingerprint |-> <<>>]
    /\ pairs = [Constellation |-> <<>>, Fingerprint |-> <<>>]
    /\ currentAnchorIndex = -1
    /\ lastSampleRead = -1
    /\ raised = "none"
    /\ lastOp = "init"
    /\ fft = NoFFT
    /\ fftInput = <<>>
    /\ fftOutput = <<>>
    /\ fftCall = NoCall
    /\ UiInit

(* const fft = new FFT(this.fftSize), of either class; neither constructor
   throws. *)
NewFFT(size) ==
    /\ \/ fft' = UtilsFFT(size)
       \/ fft' = LocalFFT(size)
    /\ fftInput' = <<>>
    /\ fftOutput' = <<>>
    /\ fftCall' = NoCall
    /\ lastOp' = "new FFT"
    /\ UNCHANGED <<configVars, uiVars, pipelineVars>>

(* The caller fills a frame (one frame per instance in this model). *)
Frame(buffer) ==
    /\ lastOp = "new FFT"
    /\ fftInput' = buffer
    /\ lastOp' = "frame"
    /\ UNCHANGED <<configVars, uiVars, pipelineVars, fft, fftOutput, fftCall>>

(* fft.forward(frame) on an FFT of utils/fft.js. *)
CallForward ==
    /\ fft.class = "utils"
    /\ lastOp \in {"frame", "forward"}
    /\ LET call == forward(fft, fftInput)
       IN  /\ fftInput' = call.input
           /\ fftOutput' = call.output
           /\ fftCall' = [outcome |-> call.outcome, reordered |-> call.reordered,
                          fresh |-> call.fresh]
    /\ lastOp' = "forward"
    /\ UNCHANGED <<configVars, uiVars, pipelineVars, fft>>

(* fft.forward(windowed) on the FFT of spectrogram.js. *)
CallLocalForward ==
    /\ fft.class = "local"
    /\ lastOp \in {"frame", "localForward"}
    /\ LET call == LocalForward(fft, fftInput)
       IN  /\ fftInput' = call.input
           /\ fftOutput' = call.output
           /\ fftCall' = [outcome |-> call.outcome, reordered |-> call.reordered,
                          fresh |-> call.fresh]
    /\ lastOp' = "localForward"
    /\ UNCHANGED <<configVars, uiVars, pipelineVars, fft>>

FFTNext ==
    \/ \E size \in InstanceSizes : NewFFT(size)
    \/ \E buffer \in Buffers : Frame(buffer)
    \/ CallForward
    \/ CallLocalForward

FFTSpec == FFTInit /\ [][FFTNext]_vars

(* Bin k of the naive DFT of input, summed from sample m on:
   sum of input[m] * (cos(2 PI k m / n) - i sin(2 PI k m / n)). *)
RECURSIVE NaiveDFT(_, _, _, _)
NaiveDFT(input, n, k, m) ==
    IF m >= n THEN [re |-> 0, im |-> 0]
    ELSE LET rest == NaiveDFT(input, n, k, m + 1)
         IN  [re |-> input[m] * CosTurn(QuarterTurns(k * m, n)) + rest.re,
              im |-> -(input[m] * SinTurn(QuarterTurns(k * m, n))) + rest.im]

(* The first n / 2 squared magnitudes of output are those of the naive DFT
   of input.  Squared magnitudes are integers here: magnitudes whose squares
   differ are further than 1e-4 apart. *)
MagnitudesMatch(input, output) ==
    LET n == SizeOf(input)
    IN  /\ DOMAIN output = 0..(2 * n - 1)
        /\ \A k \in 0..(n \div 2 - 1) :
              output[2 * k] * output[2 * k] + output[2 * k + 1] * output[2 * k + 1] =
                  LET bin == NaiveDFT(input, n, k, 0) IN bin.re * bin.re + bin.im * bin.im

(* forward has been called on an instance of a power-of-two size with a
   frame of that size. *)
ForwardCalledOnFrame ==
    /\ lastOp \in {"forward", "localForward"}
    /\ fft.size \in FrameSizes
    /\ SizeOf(fftInput) = fft.size

(* C10: for every power-of-two N and every real input of length N,
   FFT.forward of utils/fft.js and FFT.forward of spectrogram.js return N
   complex values whose first N / 2 magnitudes equal those of the naive DFT
   of the input within 1e-4. *)
ForwardMatchesNaiveDFT ==
    ForwardCalledOnFrame =>
        fftCall.outcome = "returned" /\ MagnitudesMatch(fftInput, fftOutput)

(* C11: forward called with an input whose length differs from the size of
   the instance ends in an InvalidFrameSize error; it returns no spectrum. *)
WrongLengthRaises ==
    (lastOp \in {"forward", "localForward"} /\ SizeOf(fftInput) # fft.size) =>
        fftCall.outcome = "InvalidFrameSize"

(* The sizes that are powers of two. *)
IsPowerOfTwo(size) == \E e \in 0..30 : size = 2 ^ e

(* C12: an FFT of a size that is no power of two fails with an error:
   forward returns no spectrum for it and does not run forever. *)
NonPowerOfTwoFails ==
    (lastOp \in {"forward", "localForward"} /\ ~IsPowerOfTwo(fft.size)) =>
        fftCall.outcome \notin {"returned", "hangs"}

(* C13: forward leaves its input array and the tables of the instance
   unchanged, returns an array it allocated, and a second call with the same
   input on the same instance returns an equal output. *)
ForwardIsPure ==
    [][lastOp' \in {"forward", "localForward"} =>
          /\ fftInput' = fftInput
          /\ fft' = fft
          /\ fftCall'.outcome = "returned" => fftCall'.fresh
          /\ lastOp = lastOp' => fftOutput' = fftOutput]_vars

(* Both transforms have returned a spectrum with non-zero bins for a frame
   of four samples. *)
ForwardIsPureWitness ==
    /\ ForwardCalledOnFrame
    /\ fft.size = 4
    /\ fft.class = "local"
    /\ fftCall.outcome = "returned"
    /\ fftInput[1] # 0
    /\ fftOutput[2] # 0

(* The index i of n = 2^e entries with its e bits reversed. *)
RECURSIVE BitRev(_, _)
BitRev(i, n) == IF n <= 1 THEN 0 ELSE (i % 2) * (n \div 2) + BitRev(i \div 2, n \div 2)

(* The values j takes in the bit reversal loop of utils/fft.js from the
   iteration i on (Diverges if the inner loop does not end). *)
RECURSIVE ReversalIndices(_, _, _)
ReversalIndices(n, i, j) ==
    IF i >= n - 1 \/ j = Diverges THEN {j}
    ELSE {j} \cup ReversalIndices(n, i + 1, ReverseStep(j, n \div 2))

(* The stages step = 1, 2, 4, ... below n. *)
ButterflySteps(n) == { step \in 1..n : IsPowerOfTwo(step) /\ step < n }

(* C26: FFT.forward of utils/fft.js terminates for every power-of-two size
   N >= 1: the inner loop of the bit reversal always exits, j stays in
   [0, N), every butterfly index i + step stays in [0, N), and every table
   index pair * (N / jump) stays in [0, N / 2). *)
ForwardTerminatesInRange ==
    (lastOp = "forward" /\ IsPowerOfTwo(fft.size)) =>
        LET n == fft.size
        IN  /\ fftCall.outcome = "returned"
            /\ \A j \in ReversalIndices(n, 0, 0) : j # Diverges /\ 0 <= j /\ j < n
            /\ \A step \in ButterflySteps(n), m \in 0..(n \div 2 - 1) :
                  LET pair == m % step
                      i == (m \div step) * (2 * step) + pair
                  IN  /\ 0 <= i /\ i + step < n
                      /\ 0 <= TwiddleIndex(n, step, pair)
                      /\ TwiddleIndex(n, step, pair) < n \div 2

(* forward of utils/fft.js has returned for the largest size of the model,
   which has three stages. *)
ForwardTerminatesInRangeWitness ==
    /\ lastOp = "forward"
    /\ fft.size = 8
    /\ fftCall.outcome = "returned"
    /\ Cardinality(ButterflySteps(fft.size)) = 3

(* C18: in both transforms the butterfly passes of forward start on an
   array in which position i holds input[bitrev(i)]. *)
ReorderedByBitReversal ==
    (ForwardCalledOnFrame /\ fftCall.outcome = "returned") =>
        /\ DOMAIN fftCall.reordered = 0..(fft.size - 1)
        /\ \A i \in 0..(fft.size - 1) : fftCall.reordered[i] = fftInput[BitRev(i, fft.size)]

-----------------------------------------------------------------------------
(* FingerprintVisualizer with its mouse handlers and the animation frames
   its draw requests. *)

MaxPending == 3

(* Signals handed to the fingerprint view: shorter than a frame, silence,
   and the noise floor without tone, with one loud tone and with three. *)
ViewSignals(n) ==
    { MakeSignal(n - 12, n, SilenceLevel, NoTones),
      MakeSignal(n + MaxFrames * HopSize(n) + 3, n, SilenceLevel, NoTones),
      MakeSignal(n + MaxFrames * HopSize(n) + 3, n, NoiseLevel, NoTones),
      MakeSignal(n + MaxFrames * HopSize(n) + 3, n, NoiseLevel,
                 [c \in ToneCells |-> IF c = <<1, 1>> THEN "loud" ELSE "none"]),
      MakeSignal(n + MaxFrames * HopSize(n) + 3, n, NoiseLevel,
                 [c \in ToneCells |-> "loud"]) }

(* What findPeaks makes of the spectrogram of every signal of the view
   (evaluated once per signal and parameter set). *)
FoundOf ==
    [n \in FftSizes |-> [p \in PeakParameters |-> [sig \in ViewSignals(n) |->
        FindPeaks(Rows(BuiltOf[n][sig].matrix), <<>>, p.neighborhood, p.dist, NumBins(n))]]]

(* FingerprintVisualizer.draw: whether it throws, and the number of
   animation frames it requests: one when an anchor is selected and drawn. *)
FingerprintDraw(spectrogram, peakList, index) ==
    LET thrown == DrawRaises(spectrogram, peakList, index)
    IN  [raised |-> thrown,
         requested |-> IF ~spectrogram.isNull /\ index >= 0 /\ thrown = "none" THEN 1 ELSE 0]

(* FingerprintVisualizer.setAudioData(audioData): processSpectrogramData,
   findPeaks, draw. *)
setAudioData(sig) ==
    LET built == BuiltOf[fftSize][sig]
        found == FoundOf[fftSize][[neighborhood |-> peakNeighborhood, dist |-> minDistance]][sig]
        anchor == SelectFirstAnchor(found, currentAnchorIndex, pairs.Fingerprint, targetZone)
        drawn == FingerprintDraw(Rows(built.matrix), found, anchor.index)
    IN  /\ pendingFrames + drawn.requested <= MaxPending
        /\ audioData' = sig
        /\ spectrogramData' = [spectrogramData EXCEPT !.Fingerprint = Rows(built.matrix)]
        /\ peaks' = [peaks EXCEPT !.Fingerprint = found]
        /\ pairs' = [pairs EXCEPT !.Fingerprint = anchor.pairs]
        /\ currentAnchorIndex' = anchor.index
        /\ lastSampleRead' = built.lastRead
        /\ raised' = drawn.raised
        /\ pendingFrames' = pendingFrames + drawn.requested
        /\ lastOp' = "setAudioData"
        /\ UNCHANGED <<configVars, fftVars, hoveredPeakIndex, pluginVars, audioVars>>

(* FingerprintVisualizer.nextAnchor(), with the frame its draw requests. *)
nextAnchor ==
    /\ IF Len(peaks.Fingerprint) = 0
       THEN /\ raised' = "none"
            /\ UNCHANGED <<currentAnchorIndex, pairs, pendingFrames>>
       ELSE LET index == (currentAnchorIndex + 1) % Len(peaks.Fingerprint)
                made == CreatePairsForCurrentAnchor(peaks.Fingerprint, index, targetZone)
                drawn == FingerprintDraw(spectrogramData.Fingerprint, peaks.Fingerprint, index)
            IN  /\ pendingFrames + drawn.requested <= MaxPending
                /\ currentAnchorIndex' = index
                /\ pairs' = [pairs EXCEPT !.Fingerprint = made.pairs]
                /\ raised' = IF made.raised # "none" THEN made.raised ELSE drawn.raised
                /\ pendingFrames' = pendingFrames + drawn.requested
    /\ lastOp' = "nextAnchor"
    /\ UNCHANGED <<configVars, fftVars, audioData, spectrogramData, peaks, lastSampleRead,
                   hoveredPeakIndex, pluginVars, audioVars>>

(* FingerprintVisualizer.handleMouseMove(event); closestPeak is the index of
   the peak within the interaction radius of the pointer, -1 if none.
   Without spectrogramData the handler throws on
   this.spectrogramData.length. *)
handleMouseMove(closestPeak) ==
    /\ closestPeak \in -1..(Len(peaks.Fingerprint) - 1)
    /\ IF spectrogramData.Fingerprint.isNull
       THEN /\ raised' = "TypeError"
            /\ UNCHANGED <<hoveredPeakIndex, currentAnchorIndex, pairs, pendingFrames>>
       ELSE IF hoveredPeakIndex = closestPeak
       THEN /\ raised' = "none"
            /\ UNCHANGED <<hoveredPeakIndex, currentAnchorIndex, pairs, pendingFrames>>
       ELSE LET index == IF closestPeak >= 0 THEN closestPeak ELSE currentAnchorIndex
                made == CreatePairsForCurrentAnchor(peaks.Fingerprint, index, targetZone)
                drawn == FingerprintDraw(spectrogramData.Fingerprint, peaks.Fingerprint, index)
            IN  /\ pendingFrames + drawn.requested <= MaxPending
                /\ hoveredPeakIndex' = closestPeak
                /\ currentAnchorIndex' = index
                /\ pairs' = IF closestPeak >= 0
                            THEN [pairs EXCEPT !.Fingerprint = made.pairs]
                            ELSE pairs
                /\ raised' = drawn.raised
                /\ pendingFrames' = pendingFrames + drawn.requested
    /\ lastOp' = "handleMouseMove"
    /\ UNCHANGED <<configVars, fftVars, audioData, spectrogramData, peaks, lastSampleRead,
                   pluginVars, audioVars>>

(* FingerprintVisualizer.handleMouseLeave() *)
handleMouseLeave ==
    /\ IF hoveredPeakIndex >= 0
       THEN /\ hoveredPeakIndex' = -1
            /\ currentAnchorIndex' = -1
            /\ pairs' = [pairs EXCEPT !.Fingerprint = <<>>]
            /\ raised' = FingerprintDraw(spectrogramData.Fingerprint, peaks.Fingerprint, -1).raised
       ELSE /\ raised' = "none"
            /\ UNCHANGED <<hoveredPeakIndex, currentAnchorIndex, pairs>>
    /\ lastOp' = "handleMouseLeave"
    /\ UNCHANGED <<configVars, fftVars, audioData, spectrogramData, peaks, lastSampleRead,
                   pendingFrames, pluginVars, audioVars>>

(* FingerprintVisualizer.updatePlayback(isPlaying, currentTime, duration) *)
updatePlayback ==
    LET drawn == FingerprintDraw(spectrogramData.Fingerprint, peaks.Fingerprint,
                                 currentAnchorIndex)
    IN  /\ pendingFrames + drawn.requested <= MaxPending
        /\ raised' = drawn.raised
        /\ pendingFrames' = pendingFrames + drawn.requested
        /\ lastOp' = "updatePlayback"
        /\ UNCHANGED <<configVars, fftVars, audioData, spectrogramData, peaks, pairs,
                       currentAnchorIndex, lastSampleRead, hoveredPeakIndex, pluginVars,
                       audioVars>>

(* A callback of requestAnimationFrame(() => this.draw()) runs. *)
animationFrame ==
    LET drawn == FingerprintDraw(spectrogramData.Fingerprint, peaks.Fingerprint,
                                 currentAnchorIndex)
    IN  /\ pendingFrames > 0
        /\ raised' = drawn.raised
        /\ pendingFrames' = pendingFrames - 1 + drawn.requested
        /\ lastOp' = "animationFrame"
        /\ UNCHANGED <<configVars, fftVars, audioData, spectrogramData, peaks, pairs,
                       currentAnchorIndex, lastSampleRead, hoveredPeakIndex, pluginVars,
                       audioVars>>

FingerprintNext ==
    \/ \E sig \in ViewSignals(fftSize) : setAudioData(sig)
    \/ nextAnchor
    \/ \E closestPeak \in -1..MaxFrames * MaxFrames : handleMouseMove(closestPeak)
    \/ handleMouseLeave
    \/ updatePlayback
    \/ animationFrame

FingerprintSpec == Init /\ [][FingerprintNext]_vars

(* C23: in every reachable state of FingerprintVisualizer, under any
   interleaving of setAudioData, nextAnchor, handleMouseMove,
   handleMouseLeave and draw, currentAnchorIndex is -1 or a valid index into
   peaks, pairs is the list of target-zone pairs of peaks[currentAnchorIndex]
   (empty when it is -1), and draw does not dereference a missing anchor. *)
AnchorIsValid ==
    /\ currentAnchorIndex = -1 \/ currentAnchorIndex \in 0..(Len(peaks.Fingerprint) - 1)
    /\ pairs.Fingerprint =
          IF currentAnchorIndex = -1 THEN <<>>
          ELSE CreatePairsForCurrentAnchor(peaks.Fingerprint, currentAnchorIndex,
                                           targetZone).pairs
    /\ DrawRaises(spectrogramData.Fingerprint, peaks.Fingerprint, currentAnchorIndex) = "none"

(* C25: FingerprintVisualizer keeps at most one animation-frame callback
   pending: whatever triggers draw while an anchor is selected, the number of
   callbacks scheduled and not yet run never exceeds one, and once
   handleMouseLeave has cleared the anchor no step schedules a further
   callback while none is selected. *)
AtMostOneFramePending ==
    [][/\ pendingFrames' <= 1
       /\ (currentAnchorIndex = -1 /\ currentAnchorIndex' = -1)
             => pendingFrames' <= pendingFrames]_vars

-----------------------------------------------------------------------------
(* ConstellationPlugin (plugins/constellation.js): the overlay over the
   wavesurfer spectrogram with the adaptive region-based peak search.  The
   frequency data of the spectrogram plugin are byte matrices
   [sample][frequency]; the model holds them as a background value and a few
   cells that differ from it. *)

MaxCanvases == 3

Cell(m, t, f) == IF <<t, f>> \in DOMAIN m.tones THEN m.tones[<<t, f>>] ELSE m.base

(* Matrices returned by getFrequencies: 20, 10 or 45 frames of 40 bins and 20
   frames of 80 bins, silent or with a noise floor, with no, one or two
   louder cells. *)
PluginMatrices ==
    LET one(t, f, v) == [c \in {<<t, f>>} |-> v]
        two(t, f, v, u, g, w) == [c \in {<<t, f>>, <<u, g>>} |-> IF c = <<t, f>> THEN v ELSE w]
        tones == { [c \in {} |-> 0], one(5, 10, 99), one(5, 10, 200),
                   two(5, 10, 200, 6, 11, 200), two(5, 10, 200, 6, 12, 180),
                   two(5, 8, 200, 5, 11, 180), two(5, 8, 180, 5, 11, 200) }
    IN  { Matrix(size[1], size[2], base, tone) :
            size \in {<<20, 40>>, <<10, 40>>, <<45, 40>>, <<20, 80>>},
            base \in {0, 81}, tone \in tones }
        \cup { Matrix(45, 40, base, one(42, 5, 200)) : base \in {0, 81} }

(* A rectangle of cells [timeStart, timeEnd) x [freqStart, freqEnd). *)
Box(t0, t1, f0, f1) == [timeStart |-> t0, timeEnd |-> t1, freqStart |-> f0, freqEnd |-> f1]

BoxCount(box) ==
    Max(0, box.timeEnd - box.timeStart) * Max(0, box.freqEnd - box.freqStart)

(* The sum of the cells of a rectangle (in units of 1/255 of magnitude). *)
BoxSum(m, box) ==
    LET inside == { c \in DOMAIN m.tones :
                      /\ box.timeStart <= c[1] /\ c[1] < box.timeEnd
                      /\ box.freqStart <= c[2] /\ c[2] < box.freqEnd }
        RECURSIVE Excess(_)
        Excess(cells) ==
            IF cells = {} THEN 0
            ELSE LET c == CHOOSE x \in cells : TRUE
                 IN  (m.tones[c] - m.base) + Excess(cells \ {c})
    IN  m.base * BoxCount(box) + Excess(inside)

(* timeRegions = freqRegions = max(20, min(40, floor(8 / energyLevel))) with
   energyLevel = avgMagnitude / maxMagnitude; NaN for the matrix of zeros
   (0 / 0). *)
Regions(m) ==
    LET total == BoxSum(m, Box(0, m.frames, 0, m.bins))
        highest == Max(m.base, Max(0, CHOOSE v \in {0} \cup {m.tones[c] : c \in DOMAIN m.tones} :
                                     \A c \in DOMAIN m.tones : m.tones[c] <= v))
    IN  IF total = 0 THEN NaN
        ELSE Max(20, Min(40, (8 * m.frames * m.bins * highest) \div total))

(* The region (timeRegion, freqRegion) of the grid. *)
RegionBox(m, timeRegion, freqRegion) ==
    LET timeRegionSize == m.frames \div Regions(m)
        freqRegionSize == m.bins \div Regions(m)
    IN  Box(timeRegion * timeRegionSize, Min((timeRegion + 1) * timeRegionSize, m.frames),
            freqRegion * freqRegionSize, Min((freqRegion + 1) * freqRegionSize, m.bins))

(* regionAvgMagnitude > dynamicMinMagnitude * 0.3, where dynamicMinMagnitude
   = max(0.3, avgMagnitude * 1.2); false for the empty region, whose mean is
   NaN. *)
HasSignificantEnergy(m, box) ==
    /\ BoxCount(box) > 0
    /\ 100 * BoxSum(m, box) > 2295 * BoxCount(box)
    /\ 100 * BoxSum(m, box) * (m.frames * m.bins) > 36 * BoxSum(m, Box(0, m.frames, 0, m.bins)) * BoxCount(box)

(* The cell is not skipped by
   magnitude < dynamicMinMagnitude || magnitude < regionAvgMagnitude * 1.1 *)
AboveThresholds(m, box, t, f) ==
    /\ ~(10 * Cell(m, t, f) < 765)
    /\ ~(10 * Cell(m, t, f) * (m.frames * m.bins) < 12 * BoxSum(m, Box(0, m.frames, 0, m.bins)))
    /\ ~(10 * Cell(m, t, f) * BoxCount(box) < 11 * BoxSum(m, box))

IsHighestAllowingTies(m, t, f) ==
    \A a \in -2..2, b \in -2..2 :
        (/\ ~(a = 0 /\ b = 0)
         /\ t + a >= 0 /\ t + a < m.frames /\ f + b >= 0 /\ f + b < m.bins)
        => ~(Cell(m, t + a, f + b) > Cell(m, t, f))

(* No neighbour in the 5 x 5 window, clipped to the matrix, has
   neighborMag >= magnitude. *)
IsHighest(m, t, f) ==
    \A a \in -2..2, b \in -2..2 :
        (/\ ~(a = 0 /\ b = 0)
         /\ t + a >= 0 /\ t + a < m.frames /\ f + b >= 0 /\ f + b < m.bins)
        => ~(Cell(m, t + a, f + b) >= Cell(m, t, f))

(* The peaks of one region: maxPeak, the first cell in scan order of the
   highest magnitude among the accepted cells, if any.  magnitude is in
   units of 1/255. *)
RegionPeaks(m, box) ==
    IF ~HasSignificantEnergy(m, box) THEN {}
    ELSE LET accepted == { c \in (box.timeStart..(box.timeEnd - 1))
                                  \X (box.freqStart..(box.freqEnd - 1)) :
                             /\ AboveThresholds(m, box, c[1], c[2])
                             /\ IsHighest(m, c[1], c[2])
                             /\ Cell(m, c[1], c[2]) > 0 }
             before(c, d) == c[1] < d[1] \/ (c[1] = d[1] /\ c[2] <= d[2])
         IN  { [frequency |-> c[2], magnitude |-> Cell(m, c[1], c[2]), time |-> c[1]] :
                 c \in { x \in accepted : \A d \in accepted :
                           \/ Cell(m, d[1], d[2]) < Cell(m, x[1], x[2])
                           \/ (Cell(m, d[1], d[2]) = Cell(m, x[1], x[2]) /\ before(x, d)) } }

(* ConstellationPlugin.findPeaks(frequencies): the peaks pushed region by
   region, time regions outermost. *)
PluginFindPeaks(m) ==
    IF Regions(m) = NaN THEN <<>>
    ELSE LET regions == Regions(m)
             boxOf(k) == RegionBox(m, k \div regions, k % regions)
             hits == { k \in 0..(regions * regions - 1) : RegionPeaks(m, boxOf(k)) # {} }
             RECURSIVE InOrder(_)
             InOrder(ks) ==
                 IF ks = {} THEN <<>>
                 ELSE LET k == CHOOSE x \in ks : \A y \in ks : x <= y
                      IN  <<CHOOSE p \in RegionPeaks(m, boxOf(k)) : TRUE>> \o InOrder(ks \ {k})
         IN  InOrder(hits)

(* findPeaks of every matrix of the model (evaluated once per matrix). *)
PluginPeaksOf == [m \in PluginMatrices |-> PluginFindPeaks(m)]

(* The 'ready' handler: createCanvas(), isReady = true, processAudioData()
   with the frequencies the spectrogram plugin returns. *)
Ready(m) ==
    /\ wrapper.overlays < MaxCanvases
    /\ wrapper' = [overlays |-> wrapper.overlays + 1, observers |-> wrapper.observers + 1]
    /\ plugin' = [peaks |-> PluginPeaksOf[m],
                  frequencies |-> [isNull |-> FALSE, data |-> m],
                  isReady |-> TRUE,
                  canvas |-> wrapper.overlays + 1,
                  resizeObserver |-> wrapper.observers + 1]
    /\ lastOp' = "ready"
    /\ raised' = "none"
    /\ UNCHANGED <<configVars, fftVars, visualizerVars, viewVars, audioVars>>

(* redraw(), from the 'redraw' and 'audioprocess' events and from the
   resize observer: paints, changes no field. *)
Redraw ==
    /\ lastOp' = "redraw"
    /\ raised' = IF plugin.canvas # 0 /\ Len(plugin.peaks) > 0 /\ plugin.frequencies.isNull
                 THEN "TypeError" ELSE "none"
    /\ UNCHANGED <<configVars, fftVars, visualizerVars, viewVars, pluginVars, audioVars>>

(* clear(), from the 'destroy' event and from loadSelectedSong. *)
Clear ==
    /\ plugin' = [plugin EXCEPT !.peaks = <<>>, !.frequencies = NoFrequencies,
                                !.isReady = FALSE]
    /\ lastOp' = "clear"
    /\ raised' = "none"
    /\ UNCHANGED <<configVars, fftVars, visualizerVars, viewVars, wrapper, audioVars>>

PluginNext ==
    \/ \E m \in PluginMatrices : Ready(m)
    \/ Redraw
    \/ Clear

PluginSpec == Init /\ [][PluginNext]_vars

(* The region of the grid that contains the cell (time, frequency) of a
   peak. *)
RegionOfPeak(m, p) ==
    RegionBox(m, p.time \div (m.frames \div Regions(m)),
                 p.frequency \div (m.bins \div Regions(m)))

(* C21: every peak accepted by ConstellationPlugin.findPeaks has a magnitude
   that exceeds max(minPeakMagnitude, regionMean * 1.1) of the region
   containing it, and that region's mean is greater than 0.3 times the
   global dynamic minimum. *)
AdaptivePeaksExceedThresholds ==
    ~plugin.frequencies.isNull =>
        \A i \in 1..Len(plugin.peaks) :
            LET m == plugin.frequencies.data
                p == plugin.peaks[i]
                box == RegionOfPeak(m, p)
            IN  /\ 10 * p.magnitude > 765
                /\ 10 * p.magnitude * BoxCount(box) > 11 * BoxSum(m, box)
                /\ HasSignificantEnergy(m, box)

(* C22: for every matrix with a non-zero cell the number of regions per axis
   lies in [20, 40] and every frame index and every bin index of the matrix
   lies in exactly one region interval, so the regions are pairwise disjoint
   and every cell belongs to exactly one region. *)
RegionsPartitionMatrix ==
    (~plugin.frequencies.isNull /\ Regions(plugin.frequencies.data) # NaN) =>
        LET m == plugin.frequencies.data
            regions == Regions(m)
            timeRegionsOf(t) == { r \in 0..(regions - 1) :
                                    /\ RegionBox(m, r, 0).timeStart <= t
                                    /\ t < RegionBox(m, r, 0).timeEnd }
            freqRegionsOf(f) == { r \in 0..(regions - 1) :
                                    /\ RegionBox(m, 0, r).freqStart <= f
                                    /\ f < RegionBox(m, 0, r).freqEnd }
        IN  /\ regions \in 20..40
            /\ \A t \in 0..(m.frames - 1) : Cardinality(timeRegionsOf(t)) = 1
            /\ \A f \in 0..(m.bins - 1) : Cardinality(freqRegionsOf(f)) = 1

(* C28: no two peaks of ConstellationPlugin.findPeaks lie within 2 cells of
   each other on both axes, no two lie in the same region, and there are at
   most timeRegions * freqRegions of them. *)
AdaptivePeaksAreSeparated ==
    ~plugin.frequencies.isNull =>
        LET m == plugin.frequencies.data
            found == plugin.peaks
            away(a, b) == a - b > 2 \/ b - a > 2
        IN  /\ \A i, j \in 1..Len(found) :
                  i # j => /\ away(found[i].time, found[j].time)
                              \/ away(found[i].frequency, found[j].frequency)
                           /\ RegionOfPeak(m, found[i]) # RegionOfPeak(m, found[j])
            /\ Len(found) > 0 => Len(found) <= Regions(m) * Regions(m)

(* Two louder cells within 2 cells of each other in different regions, of
   which findPeaks returned one; and two louder cells of one region that are
   both local maxima, of which it returned one. *)
AdaptivePeaksAreSeparatedWitness ==
    /\ lastOp = "ready"
    /\ Len(plugin.peaks) = 1
    /\ LET m == plugin.frequencies.data
       IN  \E c, d \in DOMAIN m.tones :
              /\ c # d
              /\ m.tones[c] > m.tones[d]
              /\ \/ /\ c[1] - d[1] \in -2..2 /\ c[2] - d[2] \in -2..2
                    /\ RegionOfPeak(m, [time |-> c[1], frequency |-> c[2]])
                         # RegionOfPeak(m, [time |-> d[1], frequency |-> d[2]])
                 \/ /\ IsHighest(m, d[1], d[2])
                    /\ RegionOfPeak(m, [time |-> c[1], frequency |-> c[2]])
                         = RegionOfPeak(m, [time |-> d[1], frequency |-> d[2]])

(* C29: the wrapper holds at most one constellation-overlay canvas and at
   most one ResizeObserver of the plugin observes it, and while the plugin is
   not ready (initially and after clear()) peaks is empty and frequencies is
   null. *)
SingleOverlayCanvas ==
    /\ wrapper.overlays <= 1
    /\ wrapper.observers <= 1
    /\ ~plugin.isReady => (plugin.peaks = <<>> /\ plugin.frequencies.isNull)

-----------------------------------------------------------------------------
(* Playback of ShazamVisualizer (canvas version): playAudio, pauseAudio,
   seekAudio and the onended callback of its buffer sources.  The audio is
   loaded; times are whole seconds.  context holds the AudioContext: its
   clock, the sources started and not yet stopped or finished, and the
   sources whose ended event waits in the task queue. *)

Duration == 3

MaxTime == 4

MaxSources == 3

(* ShazamVisualizer.pauseAudio(); stop() on a source that is playing queues
   its ended event. *)
PauseAudio(pl, ctx) ==
    [player |-> [pl EXCEPT !.audioSource = 0,
                           !.isPlaying = FALSE,
                           !.currentTime = IF ctx.exists THEN ctx.currentTime - pl.startTime
                                           ELSE 0],
     context |-> IF pl.audioSource # 0 /\ pl.audioSource \in ctx.playing
                 THEN [ctx EXCEPT !.playing = @ \ {pl.audioSource},
                                  !.ended = @ \cup {pl.audioSource}]
                 ELSE ctx]

(* ShazamVisualizer.playAudio() *)
PlayAudio(pl, ctx) ==
    IF pl.audioSource = 0
    THEN [player |-> [pl EXCEPT !.audioSource = ctx.created + 1,
                                !.startTime = ctx.currentTime - pl.currentTime,
                                !.isPlaying = TRUE],
          context |-> [ctx EXCEPT !.exists = TRUE,
                                  !.created = @ + 1,
                                  !.playing = @ \cup {ctx.created + 1}]]
    ELSE [player |-> [pl EXCEPT !.isPlaying = TRUE],
          context |-> [ctx EXCEPT !.exists = TRUE]]

(* ShazamVisualizer.togglePlayback() *)
togglePlayback ==
    LET after == IF player.isPlaying THEN PauseAudio(player, context)
                 ELSE PlayAudio(player, context)
    IN  /\ after.context.created <= MaxSources
        /\ player' = after.player
        /\ context' = after.context
        /\ lastOp' = "togglePlayback"
        /\ UNCHANGED <<configVars, fftVars, visualizerVars, raised, viewVars, pluginVars,
                       loader, loaderContext>>

(* ShazamVisualizer.seekAudio(event), the click at time = ratio * duration. *)
seekAudio(time) ==
    LET paused == PauseAudio(player, context)
        after == IF player.isPlaying
                 THEN PlayAudio([paused.player EXCEPT !.currentTime = time], paused.context)
                 ELSE [player |-> [player EXCEPT !.currentTime = time], context |-> context]
    IN  /\ after.context.created <= MaxSources
        /\ player' = after.player
        /\ context' = after.context
        /\ lastOp' = "seekAudio"
        /\ UNCHANGED <<configVars, fftVars, visualizerVars, raised, viewVars, pluginVars,
                       loader, loaderContext>>

(* The clock of the AudioContext advances by a second; a source that has
   reached the end of the buffer finishes first. *)
ClockTick ==
    /\ context.exists
    /\ context.currentTime < MaxTime
    /\ \A source \in context.playing : context.currentTime - player.startTime < Duration
    /\ context' = [context EXCEPT !.currentTime = @ + 1]
    /\ lastOp' = "tick"
    /\ UNCHANGED <<configVars, fftVars, visualizerVars, raised, viewVars, pluginVars, player,
                   loader, loaderContext>>

(* The source being played reaches the end of the buffer: its ended event
   is queued. *)
SourceFinishes ==
    /\ player.audioSource \in context.playing
    /\ context.currentTime - player.startTime >= Duration
    /\ context' = [context EXCEPT !.playing = @ \ {player.audioSource},
                                  !.ended = @ \cup {player.audioSource}]
    /\ lastOp' = "finished"
    /\ UNCHANGED <<configVars, fftVars, visualizerVars, raised, viewVars, pluginVars, player,
                   loader, loaderContext>>

(* The onended callback of a source runs:
   if (this.isPlaying) { this.pauseAudio(); this.currentTime = 0; ... } *)
onended(source) ==
    LET queue == [context EXCEPT !.ended = @ \ {source}]
        paused == PauseAudio(player, queue)
    IN  /\ source \in context.ended
        /\ IF player.isPlaying
           THEN /\ player' = [paused.player EXCEPT !.currentTime = 0]
                /\ context' = paused.context
           ELSE /\ player' = player
                /\ context' = queue
        /\ lastOp' = "onended"
        /\ UNCHANGED <<configVars, fftVars, visualizerVars, raised, viewVars, pluginVars,
                       loader, loaderContext>>

PlayerNext ==
    \/ togglePlayback
    \/ \E time \in 0..Duration : seekAudio(time)
    \/ ClockTick
    \/ SourceFinishes
    \/ \E source \in 1..(MaxSources + 1) : onended(source)

PlayerSpec == Init /\ [][PlayerNext]_vars

(* C24: when seekAudio has run while the player was playing and the pending
   onended callback runs next, the player is still playing, the source that
   seekAudio created has not been stopped and currentTime has not been
   reset. *)
SeekKeepsPlaying ==
    [][(lastOp = "seekAudio" /\ player.isPlaying /\ lastOp' = "onended")
         => /\ player'.isPlaying
            /\ player'.audioSource = player.audioSource
            /\ player.audioSource \in context'.playing
            /\ player'.currentTime = player.currentTime]_vars

-----------------------------------------------------------------------------
(* AudioLoader (utils/audio-loader.js) with a loaded buffer of Duration
   seconds.  loaderContext holds its AudioContext: the clock and the sources
   started and neither stopped nor finished, each with the time at which it
   reaches the end of the buffer. *)

(* AudioLoader.getCurrentTime() *)
getCurrentTime(ld, ctx) ==
    IF ld.source = 0 THEN ld.offset
    ELSE Min(ld.offset + (ctx.currentTime - ld.startTime), Duration)

(* AudioLoader.play(): a new source, started at the offset. *)
LoaderPlay(ld, ctx) ==
    [loader |-> [ld EXCEPT !.source = ctx.created + 1, !.startTime = ctx.currentTime],
     context |-> [ctx EXCEPT !.created = @ + 1,
                             !.playing = IF ld.offset < Duration
                                         THEN @ \cup {[id |-> ctx.created + 1,
                                                       end |-> ctx.currentTime + (Duration - ld.offset)]}
                                         ELSE @]]

play ==
    /\ loaderContext.created < MaxSources
    /\ loader' = LoaderPlay(loader, loaderContext).loader
    /\ loaderContext' = LoaderPlay(loader, loaderContext).context
    /\ lastOp' = "play"
    /\ UNCHANGED <<configVars, fftVars, visualizerVars, raised, viewVars, pluginVars, player,
                   context>>

(* AudioLoader.pause() *)
pause ==
    /\ IF loader.source # 0
       THEN /\ loader' = [loader EXCEPT !.offset = getCurrentTime(loader, loaderContext),
                                        !.source = 0]
            /\ loaderContext' = [loaderContext EXCEPT
                                   !.playing = {s \in @ : s.id # loader.source}]
       ELSE UNCHANGED <<loader, loaderContext>>
    /\ lastOp' = "pause"
    /\ UNCHANGED <<configVars, fftVars, visualizerVars, raised, viewVars, pluginVars, player,
                   context>>

(* AudioLoader.seek(time) *)
seek(time) ==
    LET wasPlaying == loader.source # 0
        stopped == [loaderContext EXCEPT !.playing = {s \in @ : s.id # loader.source}]
        moved == [loader EXCEPT !.source = 0, !.offset = Max(0, Min(time, Duration))]
    IN  /\ wasPlaying => loaderContext.created < MaxSources
        /\ loader' = IF wasPlaying THEN LoaderPlay(moved, stopped).loader ELSE moved
        /\ loaderContext' = IF wasPlaying THEN LoaderPlay(moved, stopped).context
                             ELSE loaderContext
        /\ lastOp' = "seek"
        /\ UNCHANGED <<configVars, fftVars, visualizerVars, raised, viewVars, pluginVars,
                       player, context>>

(* The clock of the loader's AudioContext advances by a second; the sources
   that reach the end of the buffer finish. *)
LoaderTick ==
    /\ loaderContext.currentTime < MaxTime
    /\ loaderContext' = [loaderContext EXCEPT
                           !.currentTime = @ + 1,
                           !.playing = {s \in @ : s.end > loaderContext.currentTime + 1}]
    /\ lastOp' = "tick"
    /\ UNCHANGED <<configVars, fftVars, visualizerVars, raised, viewVars, pluginVars, player,
                   context, loader>>

LoaderNext ==
    \/ play
    \/ pause
    \/ \E time \in -1..(Duration + 1) : seek(time)
    \/ LoaderTick

LoaderSpec == Init /\ [][LoaderNext]_vars

(* C30: for a loaded AudioLoader, after any sequence of play, pause and seek
   calls at most one buffer source is started and not stopped, and offset
   lies in [0, duration]. *)
SingleSourcePlaying ==
    /\ Cardinality(loaderContext.playing) <= 1
    /\ loader.offset >= 0
    /\ loader.offset <= Duration

====
